---- MODULE Spec2Model ----
(***************************************************************************)
(* Model of the blueprint diff engine of                                   *)
(* nexus/types/src/deployment/blueprint_diff.rs: BlueprintDiff::new and    *)
(* the three per-category diffs it calls (BpDiffZones::new,                *)
(* BpDiffPhysicalDisks::new, BpDiffDatasets::new) with the zone            *)
(* modification validator ModifiedZone::new.                               *)
(*                                                                         *)
(* A BTreeMap<K, V> is a function whose DOMAIN is the key set, iterated    *)
(* in ascending key order.                                                 *)
(***************************************************************************)
EXTENDS Integers, Sequences, FiniteSets, TLC

\* Number of sleds (hosts) of the fleet; sled ids are 1..NumSleds.
NumSleds == 2

Sleds == 1..NumSleds

\* Option<T>: None and Some(x).
NONE == <<>>

Some(x) == <<x>>

---------------------------------------------------------------------------
\* Generic helpers: BTreeMap and Vec operations used by the code.

MapInsert(m, k, v) == [x \in (DOMAIN m) \cup {k} |-> IF x = k THEN v ELSE m[x]]

MapRemove(m, k) == [x \in (DOMAIN m) \ {k} |-> m[x]]

EmptyMap == [x \in {} |-> NONE]

\* BTreeMap::get
MapGet(m, k) == IF k \in DOMAIN m THEN Some(m[k]) ELSE NONE

MinOf(S) == CHOOSE x \in S : \A y \in S : x <= y

SeqToSet(q) == {q[i] : i \in 1..Len(q)}

---------------------------------------------------------------------------
\* Data model.

SledState == {"Active", "Decommissioned"}

ZoneIds == {1, 2}

\* ZoneKind is an enum with a derived total order; report_str() names it.
ZoneKindOrd == [A |-> 1, B |-> 2]

report_str(kind) == kind

ZoneConfig(id, kind, disposition, ip, zt) ==
    [id |-> id, kind |-> kind, disposition |-> disposition,
     underlay_ip |-> ip, zone_type |-> zt]

\* zone_sort_key: records are ordered by (kind, id).
ZoneKeyLess(a, b) ==
    \/ ZoneKindOrd[a.kind] < ZoneKindOrd[b.kind]
    \/ /\ a.kind = b.kind
       /\ a.id < b.id

\* <BlueprintOrCollectionZoneConfig as PartialEq<BlueprintZoneConfig>>::eq
ZoneEq(zone_before, zone_after) ==
    /\ zone_before.id = zone_after.id
    /\ zone_before.kind = zone_after.kind
    /\ zone_before.disposition = zone_after.disposition
    /\ zone_before.underlay_ip = zone_after.underlay_ip
    /\ zone_before.zone_type = zone_after.zone_type

is_zone_type_equal(zone_before, zone_type) == zone_before.zone_type = zone_type

\* DiskIdentity { vendor, model, serial }, compared by its full value.
DiskIdentity(vendor, model, serial) ==
    [vendor |-> vendor, model |-> model, serial |-> serial]

DatasetIds == {1, 2}

\* BlueprintDatasetConfigForDiff: the id and the fields shown by as_strings.
DatasetConfig(id, quota, compression) ==
    [id |-> id, quota |-> quota, compression |-> compression]

---------------------------------------------------------------------------
\* ModifiedZone::new: the zone modification validator.

\* The reason string is kept as the list of the lines pushed onto it; a line
\* is the list of the pieces that format! joins.
KindMismatchLine(before, after) ==
    <<"mismatched zone kind: before: ", report_str(before.kind),
      ", after: ", report_str(after.kind), "\n">>

IpMismatchLine(before, after) ==
    <<"mismatched underlay IP: before: ", before.underlay_ip,
      ", after: ", after.underlay_ip, "\n">>

ZoneTypeMismatchLine(after) ==
    <<"mismatched zone type: after: ", after.zone_type, "\n">>

ModifiedZone_reason_noKind(before, after) ==
    (IF before.underlay_ip # after.underlay_ip
        THEN <<IpMismatchLine(before, after)>> ELSE <<>>)
    \o (IF ~is_zone_type_equal(before, after.zone_type)
        THEN <<ZoneTypeMismatchLine(after)>> ELSE <<>>)

ModifiedZone_reason_firstOnly(before, after) ==
    IF before.kind # after.kind
    THEN <<KindMismatchLine(before, after)>>
    ELSE IF before.underlay_ip # after.underlay_ip
    THEN <<IpMismatchLine(before, after)>>
    ELSE IF ~is_zone_type_equal(before, after.zone_type)
    THEN <<ZoneTypeMismatchLine(after)>>
    ELSE <<>>

\* The reason that ModifiedZone::new builds.
ModifiedZone_reason(before, after) ==
    (IF before.kind # after.kind
        THEN <<KindMismatchLine(before, after)>> ELSE <<>>)
    \o (IF before.underlay_ip # after.underlay_ip
        THEN <<IpMismatchLine(before, after)>> ELSE <<>>)
    \o (IF ~is_zone_type_equal(before, after.zone_type)
        THEN <<ZoneTypeMismatchLine(after)>> ELSE <<>>)

ModifiedZone_new_afterDisposition(before, after) ==
    LET reason == ModifiedZone_reason(before, after)
    IN  IF reason = <<>>
        THEN [ok |-> TRUE,
              value |-> [prior_disposition |-> after.disposition,
                         zone |-> after]]
        ELSE [ok |-> FALSE,
              value |-> [zone_before |-> before, zone_after |-> after,
                         reason |-> reason]]

ModifiedZone_new(before, after) ==
    LET reason == ModifiedZone_reason(before, after)
    IN  IF reason = <<>>
        THEN [ok |-> TRUE,
              value |-> [prior_disposition |-> before.disposition,
                         zone |-> after]]
        ELSE [ok |-> FALSE,
              value |-> [zone_before |-> before, zone_after |-> after,
                         reason |-> reason]]

---------------------------------------------------------------------------
\* BpDiffZones::new

\* Vec::sort_unstable_by_key(zone_sort_key); keys[i] is the record that
\* carries the sort key of q[i].
SortByZoneKey(q, keys) ==
    LET n == Len(q)
        perms == {p \in [1..n -> 1..n] :
                    \A i, j \in 1..n : i # j => p[i] # p[j]}
        p == CHOOSE p \in perms :
                \A i, j \in 1..n :
                    i < j => ~ZoneKeyLess(keys[p[j]], keys[p[i]])
    IN  [i \in 1..n |-> q[p[i]]]

\* impl ZoneSortKey for ModifiedZone: the key of its zone.
ModifiedZoneKeys(q) == [i \in 1..Len(q) |-> q[i].zone]

\* before_zones.zones().map(|z| (z.id(), z)).collect()
ZonesById(zs) ==
    [i \in {z.id : z \in zs} |-> CHOOSE z \in zs : z.id = i]

\* after_zones.zones.into_iter().map(|z| (z.id, z)).collect(): a later
\* element of the Vec replaces an earlier one with the same id.
ZoneVecById(q) ==
    [i \in {q[n].id : n \in 1..Len(q)} |->
        q[CHOOSE n \in 1..Len(q) :
            /\ q[n].id = i
            /\ \A m \in 1..Len(q) : q[m].id = i => m <= n]]

RECURSIVE MapValuesInOrder(_, _)
\* The values of a BTreeMap in ascending key order.
MapValuesInOrder(m, todo) ==
    IF todo = {} THEN <<>>
    ELSE LET k == MinOf(todo)
         IN  <<m[k]>> \o MapValuesInOrder(m, todo \ {k})

RECURSIVE SetToVec(_)
\* The elements an iterator over a set of zone records yields.
SetToVec(S) ==
    IF S = {} THEN <<>>
    ELSE LET z == CHOOSE x \in S : \A y \in S : x.id <= y.id
         IN  <<z>> \o SetToVec(S \ {z})

EmptyZoneVecs ==
    [unchanged |-> <<>>, modified |-> <<>>, errors |-> <<>>,
     removed |-> <<>>, after_by_id |-> EmptyMap]

ZonePairStep_keepsAfter(v, zone_id, zone_before) ==
    IF zone_id \in DOMAIN v.after_by_id
    THEN LET zone_after == v.after_by_id[zone_id]
         IN  IF ZoneEq(zone_before, zone_after)
             THEN [v EXCEPT !.unchanged = Append(@, zone_after)]
             ELSE LET r == ModifiedZone_new(zone_before, zone_after)
                  IN  IF r.ok
                      THEN [v EXCEPT !.modified = Append(@, r.value)]
                      ELSE [v EXCEPT !.errors = Append(@, r.value)]
    ELSE [v EXCEPT !.removed = Append(@, zone_before)]

\* ZonePairStep without the `zone_before == zone_after` test: every same-id
\* pair goes to the validator.
ZonePairStep_noEqualTest(v, zone_id, zone_before) ==
    IF zone_id \in DOMAIN v.after_by_id
    THEN LET zone_after == v.after_by_id[zone_id]
             rest == [v EXCEPT !.after_by_id = MapRemove(@, zone_id)]
             r == ModifiedZone_new(zone_before, zone_after)
         IN  IF r.ok
             THEN [rest EXCEPT !.modified = Append(@, r.value)]
             ELSE [rest EXCEPT !.errors = Append(@, r.value)]
    ELSE [v EXCEPT !.removed = Append(@, zone_before)]

\* ZonePairStep that records no modification once the sled has an error.
ZonePairStep_dropsAfterError(v, zone_id, zone_before) ==
    IF zone_id \in DOMAIN v.after_by_id
    THEN LET zone_after == v.after_by_id[zone_id]
             rest == [v EXCEPT !.after_by_id = MapRemove(@, zone_id)]
         IN  IF ZoneEq(zone_before, zone_after)
             THEN [rest EXCEPT !.unchanged = Append(@, zone_after)]
             ELSE LET r == ModifiedZone_new(zone_before, zone_after)
                  IN  IF r.ok
                      THEN IF rest.errors = <<>>
                           THEN [rest EXCEPT !.modified = Append(@, r.value)]
                           ELSE rest
                      ELSE [rest EXCEPT !.errors = Append(@, r.value)]
    ELSE [v EXCEPT !.removed = Append(@, zone_before)]

\* One iteration of `for (zone_id, zone_before) in before_by_id`.
ZonePairStep(v, zone_id, zone_before) ==
    IF zone_id \in DOMAIN v.after_by_id
    THEN LET zone_after == v.after_by_id[zone_id]
             rest == [v EXCEPT !.after_by_id = MapRemove(@, zone_id)]
         IN  IF ZoneEq(zone_before, zone_after)
             THEN [rest EXCEPT !.unchanged = Append(@, zone_after)]
             ELSE LET r == ModifiedZone_new(zone_before, zone_after)
                  IN  IF r.ok
                      THEN [rest EXCEPT !.modified = Append(@, r.value)]
                      ELSE [rest EXCEPT !.errors = Append(@, r.value)]
    ELSE [v EXCEPT !.removed = Append(@, zone_before)]

RECURSIVE ZonePairLoop_stopsAtError(_, _, _)
ZonePairLoop_stopsAtError(before_by_id, todo, v) ==
    IF todo = {} \/ v.errors # <<>> THEN v
    ELSE LET zone_id == MinOf(todo)
         IN  ZonePairLoop_stopsAtError(before_by_id, todo \ {zone_id},
                ZonePairStep(v, zone_id, before_by_id[zone_id]))

RECURSIVE ZonePairLoop(_, _, _)
ZonePairLoop(before_by_id, todo, v) ==
    IF todo = {} THEN v
    ELSE LET zone_id == MinOf(todo)
         IN  ZonePairLoop(before_by_id, todo \ {zone_id},
                          ZonePairStep(v, zone_id, before_by_id[zone_id]))

InsertIfNonEmpty(m, sled_id, vec, details) ==
    IF vec # <<>> THEN MapInsert(m, sled_id, details) ELSE m

EmptyZoneDiffs ==
    [added |-> EmptyMap, removed |-> EmptyMap, unchanged |-> EmptyMap,
     modified |-> EmptyMap, errors |-> EmptyMap]

\* A `removed` vector declared once before the loop over the sleds: it still
\* holds the zones removed from the sleds handled so far.
RemovedAtEntry_hoisted(st) ==
    IF DOMAIN st.diffs.removed = {} THEN <<>>
    ELSE st.diffs.removed[MinOf(DOMAIN st.diffs.removed)].zones

\* `let mut removed = vec![]` at the head of each iteration of the loop over
\* the sleds of `before`.
RemovedAtEntry(st) == <<>>

\* The body of `for (sled_id, before_zones) in before`; st holds the diffs
\* built so far and what is left of `after`.
BpDiffZones_body(st, sled_id, before_zones) ==
    LET before_generation == before_zones.generation
        diffs == st.diffs
        removed_at_entry == RemovedAtEntry(st)
    IN  IF sled_id \in DOMAIN st.after
        THEN LET after_zones == st.after[sled_id]
                 after_generation == after_zones.generation
                 before_by_id == ZonesById(before_zones.zones)
                 v == ZonePairLoop(before_by_id, DOMAIN before_by_id,
                        [EmptyZoneVecs EXCEPT
                            !.after_by_id = ZoneVecById(after_zones.zones)])
                 added == MapValuesInOrder(v.after_by_id, DOMAIN v.after_by_id)
                 details(zs) ==
                    [generation_before |-> Some(before_generation),
                     generation_after |-> Some(after_generation),
                     zones |-> zs]
             IN  [after |-> MapRemove(st.after, sled_id),
                  panicked |-> st.panicked,
                  diffs |->
                    [unchanged |-> InsertIfNonEmpty(diffs.unchanged, sled_id,
                        v.unchanged,
                        details(SortByZoneKey(v.unchanged, v.unchanged))),
                     removed |-> InsertIfNonEmpty(diffs.removed, sled_id,
                        v.removed,
                        details(SortByZoneKey(v.removed, v.removed))),
                     added |-> InsertIfNonEmpty(diffs.added, sled_id,
                        added,
                        details(SortByZoneKey(added, added))),
                     modified |-> InsertIfNonEmpty(diffs.modified, sled_id,
                        v.modified,
                        [generation_before |-> before_generation,
                         generation_after |-> after_generation,
                         zones |-> SortByZoneKey(v.modified,
                                    ModifiedZoneKeys(v.modified))]),
                     errors |-> InsertIfNonEmpty(diffs.errors, sled_id,
                        v.errors,
                        [generation_before |-> before_generation,
                         generation_after |-> after_generation,
                         errors |-> v.errors])]]
        ELSE LET removed == removed_at_entry \o SetToVec(before_zones.zones)
             IN  [after |-> st.after,
                  \* assert!(removed.is_empty())
                  panicked |-> st.panicked \/ removed_at_entry # <<>>,
                  diffs |-> [diffs EXCEPT !.removed =
                    InsertIfNonEmpty(@, sled_id, removed,
                        [generation_before |-> Some(before_generation),
                         generation_after |-> NONE,
                         zones |-> SortByZoneKey(removed, removed)])]]

RECURSIVE BpDiffZones_before(_, _, _)
BpDiffZones_before(before, todo, st) ==
    IF todo = {} \/ st.panicked THEN st
    ELSE LET sled_id == MinOf(todo)
         IN  BpDiffZones_before(before, todo \ {sled_id},
                BpDiffZones_body(st, sled_id, before[sled_id]))

RECURSIVE BpDiffZones_after_noCheck(_, _, _)
BpDiffZones_after_noCheck(after, todo, diffs) ==
    IF todo = {} THEN diffs
    ELSE LET sled_id == MinOf(todo)
             after_zones == after[sled_id]
         IN  BpDiffZones_after_noCheck(after, todo \ {sled_id},
                [diffs EXCEPT !.added =
                    MapInsert(@, sled_id,
                        [generation_before |-> NONE,
                         generation_after |-> Some(after_zones.generation),
                         zones |-> after_zones.zones])])

RECURSIVE BpDiffZones_after(_, _, _)
\* `for (sled_id, after_zones) in after`: the sleds left in `after`.
BpDiffZones_after(after, todo, diffs) ==
    IF todo = {} THEN diffs
    ELSE LET sled_id == MinOf(todo)
             after_zones == after[sled_id]
         IN  BpDiffZones_after(after, todo \ {sled_id},
                [diffs EXCEPT !.added =
                    InsertIfNonEmpty(@, sled_id, after_zones.zones,
                        [generation_before |-> NONE,
                         generation_after |-> Some(after_zones.generation),
                         zones |-> after_zones.zones])])

BpDiffZones_new(before, after) ==
    LET st == BpDiffZones_before(before, DOMAIN before,
                [diffs |-> EmptyZoneDiffs, after |-> after,
                 panicked |-> FALSE])
    IN  BpDiffZones_after(st.after, DOMAIN st.after, st.diffs)

\* Whether the assertion of BpDiffZones::new fails on these arguments.
BpDiffZones_panics(before, after) ==
    BpDiffZones_before(before, DOMAIN before,
        [diffs |-> EmptyZoneDiffs, after |-> after,
         panicked |-> FALSE]).panicked

---------------------------------------------------------------------------
\* BpDiffPhysicalDisks::new

EmptyDiskDiffs ==
    [added |-> EmptyMap, removed |-> EmptyMap, unchanged |-> EmptyMap]

InsertIfNonEmptySet(m, sled_id, set, details) ==
    IF set # {} THEN MapInsert(m, sled_id, details) ELSE m

\* after_disks.disks.into_iter().map(|d| d.identity).collect()
DiskIdentities(disks) == {d.identity : d \in disks}

DisksAdded_swapped(a, b) == b \ a

\* a.difference(&b)
DisksAdded(a, b) == a \ b

\* b.difference(&a)
DisksRemoved(a, b) == b \ a

DisksUnchanged_bySerial(a, b) == {d \in a : \E e \in b : e.serial = d.serial}

\* a.intersection(&b): BTreeSet compares a DiskIdentity by its full value.
DisksUnchanged(a, b) == {d \in a : \E e \in b : e = d}

BpDiffPhysicalDisks_body_removedNoAfter(st, sled_id, before_disks) ==
    LET before_generation == before_disks.generation
        diffs == st.diffs
    IN  IF sled_id \in DOMAIN st.after
        THEN LET after_disks == st.after[sled_id]
                 after_generation == Some(after_disks.generation)
                 a == DiskIdentities(after_disks.disks)
                 b == before_disks.disks
                 added == DisksAdded(a, b)
                 removed == DisksRemoved(a, b)
                 unchanged == DisksUnchanged(a, b)
                 details(ds) ==
                    [before_generation |-> before_generation,
                     after_generation |-> after_generation,
                     disks |-> ds]
             IN  [after |-> MapRemove(st.after, sled_id),
                  diffs |->
                    [added |-> InsertIfNonEmptySet(diffs.added, sled_id,
                        added, details(added)),
                     removed |-> InsertIfNonEmptySet(diffs.removed, sled_id,
                        removed,
                        [details(removed) EXCEPT !.after_generation = NONE]),
                     unchanged |-> InsertIfNonEmptySet(diffs.unchanged,
                        sled_id, unchanged, details(unchanged))]]
        ELSE [after |-> st.after,
              diffs |-> [diffs EXCEPT !.removed =
                MapInsert(@, sled_id,
                    [before_generation |-> before_generation,
                     after_generation |-> NONE,
                     disks |-> before_disks.disks])]]

\* The body of `for (sled_id, before_disks) in before`.
BpDiffPhysicalDisks_body(st, sled_id, before_disks) ==
    LET before_generation == before_disks.generation
        diffs == st.diffs
    IN  IF sled_id \in DOMAIN st.after
        THEN LET after_disks == st.after[sled_id]
                 after_generation == Some(after_disks.generation)
                 a == DiskIdentities(after_disks.disks)
                 b == before_disks.disks
                 added == DisksAdded(a, b)
                 removed == DisksRemoved(a, b)
                 unchanged == DisksUnchanged(a, b)
                 details(ds) ==
                    [before_generation |-> before_generation,
                     after_generation |-> after_generation,
                     disks |-> ds]
             IN  [after |-> MapRemove(st.after, sled_id),
                  diffs |->
                    [added |-> InsertIfNonEmptySet(diffs.added, sled_id,
                        added, details(added)),
                     removed |-> InsertIfNonEmptySet(diffs.removed, sled_id,
                        removed, details(removed)),
                     unchanged |-> InsertIfNonEmptySet(diffs.unchanged,
                        sled_id, unchanged, details(unchanged))]]
        ELSE [after |-> st.after,
              diffs |-> [diffs EXCEPT !.removed =
                MapInsert(@, sled_id,
                    [before_generation |-> before_generation,
                     after_generation |-> NONE,
                     disks |-> before_disks.disks])]]

RECURSIVE BpDiffPhysicalDisks_before(_, _, _)
BpDiffPhysicalDisks_before(before, todo, st) ==
    IF todo = {} THEN st
    ELSE LET sled_id == MinOf(todo)
         IN  BpDiffPhysicalDisks_before(before, todo \ {sled_id},
                BpDiffPhysicalDisks_body(st, sled_id, before[sled_id]))

RECURSIVE BpDiffPhysicalDisks_after(_, _, _)
BpDiffPhysicalDisks_after(after, todo, diffs) ==
    IF todo = {} THEN diffs
    ELSE LET sled_id == MinOf(todo)
             after_disks == after[sled_id]
             added == DiskIdentities(after_disks.disks)
         IN  BpDiffPhysicalDisks_after(after, todo \ {sled_id},
                [diffs EXCEPT !.added =
                    InsertIfNonEmptySet(@, sled_id, added,
                        [before_generation |-> NONE,
                         after_generation |-> Some(after_disks.generation),
                         disks |-> added])])

BpDiffPhysicalDisks_new(before, after) ==
    LET st == BpDiffPhysicalDisks_before(before, DOMAIN before,
                [diffs |-> EmptyDiskDiffs, after |-> after])
    IN  BpDiffPhysicalDisks_after(st.after, DOMAIN st.after, st.diffs)

---------------------------------------------------------------------------
\* BpDiffDatasets::new

EmptyDatasetDiffs ==
    [added |-> EmptyMap, removed |-> EmptyMap, modified |-> EmptyMap,
     unchanged |-> EmptyMap]

\* CollectionDatasetIdentifier::from(d)
CollectionDatasetIdentifier(d) == d.id

\* after_datasets.datasets.values().map(|d| (id of d, d.into())).collect()
DatasetsByIdentifier(datasets) ==
    [i \in {CollectionDatasetIdentifier(datasets[k]) : k \in DOMAIN datasets}
        |-> LET k == CHOOSE k \in DOMAIN datasets :
                    /\ CollectionDatasetIdentifier(datasets[k]) = i
                    /\ \A j \in DOMAIN datasets :
                        CollectionDatasetIdentifier(datasets[j]) = i => j <= k
            IN  datasets[k]]

EmptyDatasetMaps ==
    [unchanged |-> EmptyMap, modified |-> EmptyMap, removed |-> EmptyMap,
     added |-> EmptyMap]

DatasetPairStep_swapped(v, id, dataset_before) ==
    IF id \in DOMAIN v.added
    THEN LET dataset_after == v.added[id]
             rest == [v EXCEPT !.added = MapRemove(@, id)]
         IN  IF dataset_before # dataset_after
             THEN [rest EXCEPT !.unchanged = MapInsert(@, id, dataset_after)]
             ELSE [rest EXCEPT !.modified =
                    MapInsert(@, id, <<dataset_before, dataset_after>>)]
    ELSE [v EXCEPT !.removed = MapInsert(@, id, dataset_before)]

\* One iteration of `for (id, dataset_before) in b`.
DatasetPairStep(v, id, dataset_before) ==
    IF id \in DOMAIN v.added
    THEN LET dataset_after == v.added[id]
             rest == [v EXCEPT !.added = MapRemove(@, id)]
         IN  IF dataset_before = dataset_after
             THEN [rest EXCEPT !.unchanged = MapInsert(@, id, dataset_after)]
             ELSE [rest EXCEPT !.modified =
                    MapInsert(@, id, <<dataset_before, dataset_after>>)]
    ELSE [v EXCEPT !.removed = MapInsert(@, id, dataset_before)]

RECURSIVE DatasetPairLoop(_, _, _)
DatasetPairLoop(b, todo, v) ==
    IF todo = {} THEN v
    ELSE LET id == MinOf(todo)
         IN  DatasetPairLoop(b, todo \ {id}, DatasetPairStep(v, id, b[id]))

InsertIfNonEmptyMap(m, sled_id, map, details) ==
    IF DOMAIN map # {} THEN MapInsert(m, sled_id, details) ELSE m

ModifiedDatasets_afterTwice(modified) ==
    LET pairs == MapValuesInOrder(modified, DOMAIN modified)
    IN  [i \in 1..Len(pairs) |->
            [before |-> pairs[i][2], after |-> pairs[i][2]]]

\* modified.into_values().map(|(before, after)| ModifiedDataset {..}).collect()
ModifiedDatasets(modified) ==
    LET pairs == MapValuesInOrder(modified, DOMAIN modified)
    IN  [i \in 1..Len(pairs) |->
            [before |-> pairs[i][1], after |-> pairs[i][2]]]

BpDiffDatasets_body(st, sled_id, before_datasets) ==
    LET before_generation == before_datasets.generation
        diffs == st.diffs
    IN  IF sled_id \in DOMAIN st.after
        THEN LET after_datasets == st.after[sled_id]
                 after_generation == Some(after_datasets.generation)
                 b == before_datasets.datasets
                 v == DatasetPairLoop(b, DOMAIN b,
                        [EmptyDatasetMaps EXCEPT !.added =
                            DatasetsByIdentifier(after_datasets.datasets)])
                 details(ds) ==
                    [before_generation |-> before_generation,
                     after_generation |-> after_generation,
                     datasets |-> ds]
             IN  [after |-> MapRemove(st.after, sled_id),
                  diffs |->
                    [added |-> InsertIfNonEmptyMap(diffs.added, sled_id,
                        v.added, details(v.added)),
                     removed |-> InsertIfNonEmptyMap(diffs.removed, sled_id,
                        v.removed, details(v.removed)),
                     modified |-> InsertIfNonEmptyMap(diffs.modified, sled_id,
                        v.modified,
                        [generation_before |-> before_generation,
                         generation_after |-> after_generation,
                         datasets |-> ModifiedDatasets(v.modified)]),
                     unchanged |-> InsertIfNonEmptyMap(diffs.unchanged,
                        sled_id, v.unchanged, details(v.unchanged))]]
        ELSE [after |-> st.after,
              diffs |-> [diffs EXCEPT !.removed =
                MapInsert(@, sled_id,
                    [before_generation |-> before_generation,
                     after_generation |-> NONE,
                     datasets |-> before_datasets.datasets])]]

RECURSIVE BpDiffDatasets_before(_, _, _)
BpDiffDatasets_before(before, todo, st) ==
    IF todo = {} THEN st
    ELSE LET sled_id == MinOf(todo)
         IN  BpDiffDatasets_before(before, todo \ {sled_id},
                BpDiffDatasets_body(st, sled_id, before[sled_id]))

RECURSIVE BpDiffDatasets_after(_, _, _)
BpDiffDatasets_after(after, todo, diffs) ==
    IF todo = {} THEN diffs
    ELSE LET sled_id == MinOf(todo)
             after_datasets == after[sled_id]
             added == DatasetsByIdentifier(after_datasets.datasets)
         IN  BpDiffDatasets_after(after, todo \ {sled_id},
                [diffs EXCEPT !.added =
                    InsertIfNonEmptyMap(@, sled_id, added,
                        [before_generation |-> NONE,
                         after_generation |-> Some(after_datasets.generation),
                         datasets |-> added])])

BpDiffDatasets_new(before, after) ==
    LET st == BpDiffDatasets_before(before, DOMAIN before,
                [diffs |-> EmptyDatasetDiffs, after |-> after])
    IN  BpDiffDatasets_after(st.after, DOMAIN st.after, st.diffs)

---------------------------------------------------------------------------
\* BlueprintDiff::new

RECURSIVE DecommissionPatch_disksOnly(_, _, _, _, _)
DecommissionPatch_disksOnly(b_state, todo, a_state, a_zones, a_disks) ==
    IF todo = {} THEN a_state
    ELSE LET sled_id == MinOf(todo)
             patched ==
                IF /\ b_state[sled_id] = "Decommissioned"
                   /\ sled_id \notin DOMAIN a_state
                   /\ sled_id \in DOMAIN a_disks
                THEN MapInsert(a_state, sled_id, "Decommissioned")
                ELSE a_state
         IN  DecommissionPatch_disksOnly(b_state, todo \ {sled_id}, patched,
                                         a_zones, a_disks)

RECURSIVE DecommissionPatch_anyLeftover(_, _, _, _, _)
\* DecommissionPatch without the test for an after zones or disks entry.
DecommissionPatch_anyLeftover(b_state, todo, a_state, a_zones, a_disks) ==
    IF todo = {} THEN a_state
    ELSE LET sled_id == MinOf(todo)
             patched ==
                IF /\ b_state[sled_id] = "Decommissioned"
                   /\ sled_id \notin DOMAIN a_state
                THEN MapInsert(a_state, sled_id, "Decommissioned")
                ELSE a_state
         IN  DecommissionPatch_anyLeftover(b_state, todo \ {sled_id}, patched,
                                           a_zones, a_disks)

\* BlueprintDiff::new without the decommission workaround.
DecommissionPatch_none(b_state, todo, a_state, a_zones, a_disks) == a_state

RECURSIVE DecommissionPatch(_, _, _, _, _)
\* The loop over the decommissioned sleds of before_state that inserts a
\* `decommissioned` after-state for a sled with leftover zones or disks.
DecommissionPatch(b_state, todo, a_state, a_zones, a_disks) ==
    IF todo = {} THEN a_state
    ELSE LET sled_id == MinOf(todo)
             patched ==
                IF /\ b_state[sled_id] = "Decommissioned"
                   /\ sled_id \notin DOMAIN a_state
                   /\ \/ sled_id \in DOMAIN a_zones
                      \/ sled_id \in DOMAIN a_disks
                THEN MapInsert(a_state, sled_id, "Decommissioned")
                ELSE a_state
         IN  DecommissionPatch(b_state, todo \ {sled_id}, patched,
                               a_zones, a_disks)

SledsOf_noDatasets(state, zs, ds, ts) ==
    (DOMAIN state) \cup (DOMAIN zs) \cup (DOMAIN ds)

\* The sleds of the zones, disks and datasets maps, without those of the
\* state map.
SledsOf_noState(state, zs, ds, ts) ==
    (DOMAIN zs) \cup (DOMAIN ds) \cup (DOMAIN ts)

\* state.keys().chain(zones.keys()).chain(disks.keys())
\*     .chain(datasets.keys()).collect()
SledsOf(state, zs, ds, ts) ==
    (DOMAIN state) \cup (DOMAIN zs) \cup (DOMAIN ds) \cup (DOMAIN ts)

SledIsModified_noDatasetsRemoved(sled_id, b_state, a_state, z, d, t) ==
    \/ MapGet(b_state, sled_id) # MapGet(a_state, sled_id)
    \/ sled_id \in DOMAIN d.added
    \/ sled_id \in DOMAIN d.removed
    \/ sled_id \in DOMAIN t.added
    \/ sled_id \in DOMAIN t.modified
    \/ sled_id \in DOMAIN z.added
    \/ sled_id \in DOMAIN z.removed
    \/ sled_id \in DOMAIN z.modified
    \/ sled_id \in DOMAIN z.errors

\* The retain predicate without the test of zones.errors.
SledIsModified_noZoneErrors(sled_id, b_state, a_state, z, d, t) ==
    \/ MapGet(b_state, sled_id) # MapGet(a_state, sled_id)
    \/ sled_id \in DOMAIN d.added
    \/ sled_id \in DOMAIN d.removed
    \/ sled_id \in DOMAIN t.added
    \/ sled_id \in DOMAIN t.modified
    \/ sled_id \in DOMAIN t.removed
    \/ sled_id \in DOMAIN z.added
    \/ sled_id \in DOMAIN z.removed
    \/ sled_id \in DOMAIN z.modified

\* sleds_modified.retain(|sled_id| ...)
SledIsModified(sled_id, b_state, a_state, z, d, t) ==
    \/ MapGet(b_state, sled_id) # MapGet(a_state, sled_id)
    \/ sled_id \in DOMAIN d.added
    \/ sled_id \in DOMAIN d.removed
    \/ sled_id \in DOMAIN t.added
    \/ sled_id \in DOMAIN t.modified
    \/ sled_id \in DOMAIN t.removed
    \/ sled_id \in DOMAIN z.added
    \/ sled_id \in DOMAIN z.removed
    \/ sled_id \in DOMAIN z.modified
    \/ sled_id \in DOMAIN z.errors

BlueprintDiff_new(b_meta, b_state, b_zones, b_disks, b_datasets, a_meta, a_in, a_zones, a_disks, a_datasets) ==
    LET a_state == DecommissionPatch(b_state, DOMAIN b_state, a_in,
                                     a_zones, a_disks)
        before_sleds == SledsOf(b_state, b_zones, b_disks, b_datasets)
        after_sleds == SledsOf(a_state, a_zones, a_disks, a_datasets)
        all_sleds == before_sleds \cup after_sleds
        added == after_sleds \ before_sleds
        removed == before_sleds \ after_sleds
        z == BpDiffZones_new(b_zones, a_zones)
        d == BpDiffPhysicalDisks_new(b_disks, a_disks)
        t == BpDiffDatasets_new(b_datasets, a_datasets)
        sleds_unchanged_or_modified ==
            {sled_id \in all_sleds :
                sled_id \notin added /\ sled_id \notin removed}
        modified == {sled_id \in sleds_unchanged_or_modified :
                        SledIsModified(sled_id, b_state, a_state, z, d, t)}
    IN  [before_meta |-> b_meta,
         after_meta |-> a_meta,
         before_state |-> b_state,
         after_state |-> a_state,
         zones |-> z,
         physical_disks |-> d,
         datasets |-> t,
         sleds_added |-> added,
         sleds_removed |-> removed,
         sleds_unchanged |-> sleds_unchanged_or_modified \ modified,
         sleds_modified |-> modified]

---------------------------------------------------------------------------
\* BlueprintDiffDisplay: the text of a BlueprintDiff.  The text is kept as
\* the list of the items written, each a tuple that starts with its kind.

RECURSIVE KeysInOrder(_)
\* The elements of a BTreeSet of ids, or the keys of a BTreeMap, in order.
KeysInOrder(S) ==
    IF S = {} THEN <<>>
    ELSE <<MinOf(S)>> \o KeysInOrder(S \ {MinOf(S)})

\* The order of the strings that disk identities are made of.
StrOrd == [v1 |-> 1, v2 |-> 2, m1 |-> 1, s1 |-> 1, s2 |-> 2]

\* #[derive(Ord)] of DiskIdentity: by vendor, then model, then serial.
DiskLess(a, b) ==
    \/ StrOrd[a.vendor] < StrOrd[b.vendor]
    \/ /\ a.vendor = b.vendor
       /\ \/ StrOrd[a.model] < StrOrd[b.model]
          \/ /\ a.model = b.model
             /\ StrOrd[a.serial] < StrOrd[b.serial]

RECURSIVE DisksInOrder(_)
\* self.disks.iter() of a BTreeSet<DiskIdentity>
DisksInOrder(S) ==
    IF S = {} THEN <<>>
    ELSE LET d == CHOOSE x \in S : \A y \in S : x = y \/ DiskLess(x, y)
         IN  <<d>> \o DisksInOrder(S \ {d})

\* BpSledSubtableColumn::value and BpSledSubtableColumn::diff
ColumnValue(x) == <<"value", x>>

ColumnDiff(before, after) == <<"diff", before, after>>

\* BpSledSubtableRow::new and BpSledSubtableRow::from_strings
SubtableRow(state, columns) == [state |-> state, columns |-> columns]

RowFromStrings(state, strings) ==
    SubtableRow(state, [i \in 1..Len(strings) |-> ColumnValue(strings[i])])

BpGenerationDiff(before, after) == [before |-> before, after |-> after]

\* <BpDiffZoneDetails as BpSledSubtableData>::rows
BpDiffZoneDetails_rows(details, state) ==
    [i \in 1..Len(details.zones) |->
        LET zone == details.zones[i]
        IN  RowFromStrings(state,
                <<report_str(zone.kind), ToString(zone.id), zone.disposition,
                  zone.underlay_ip>>)]

\* <BpDiffZonesModified as BpSledSubtableData>::rows
BpDiffZonesModified_rows(details, state) ==
    [i \in 1..Len(details.zones) |->
        LET zone == details.zones[i]
        IN  SubtableRow(state,
                <<ColumnValue(report_str(zone.zone.kind)),
                  ColumnValue(ToString(zone.zone.id)),
                  ColumnDiff(zone.prior_disposition, zone.zone.disposition),
                  ColumnValue(zone.zone.underlay_ip)>>)]

\* <DiffPhysicalDisksDetails as BpSledSubtableData>::rows
DiffPhysicalDisksDetails_rows(details, state) ==
    LET disks == DisksInOrder(details.disks)
    IN  [i \in 1..Len(disks) |->
            RowFromStrings(state,
                <<disks[i].vendor, disks[i].model, disks[i].serial>>)]

\* BlueprintDatasetConfigForDiff::as_strings
as_strings(dataset) ==
    <<ToString(dataset.id), dataset.quota, dataset.compression>>

\* <DiffDatasetsDetails as BpSledSubtableData>::rows
DiffDatasetsDetails_rows(details, state) ==
    LET datasets == MapValuesInOrder(details.datasets, DOMAIN details.datasets)
    IN  [i \in 1..Len(datasets) |->
            RowFromStrings(state, as_strings(datasets[i]))]

\* Rows of the modified datasets that show the before strings and flag no
\* column.
BpDiffDatasetsModified_rows_unflagged(details, state) ==
    [i \in 1..Len(details.datasets) |->
        RowFromStrings(state, as_strings(details.datasets[i].before))]

\* <BpDiffDatasetsModified as BpSledSubtableData>::rows
BpDiffDatasetsModified_rows(details, state) ==
    [i \in 1..Len(details.datasets) |->
        LET before_strings == as_strings(details.datasets[i].before)
            after_strings == as_strings(details.datasets[i].after)
        IN  SubtableRow(state,
                [c \in 1..Len(before_strings) |->
                    IF before_strings[c] # after_strings[c]
                    THEN ColumnDiff(before_strings[c], after_strings[c])
                    ELSE ColumnValue(before_strings[c])])]

\* The table under construction in to_bp_sled_subtable: the generation and
\* the rows so far.
EmptySubtable == [generation |-> BpGenerationDiff(NONE, NONE), rows |-> <<>>]

ExtendSubtable(t, generation, rows) ==
    [generation |-> generation, rows |-> t.rows \o rows]

\* Some(BpSledSubtable::new(schema, generation, rows)), or None without rows.
SubtableOption(schema, t) ==
    IF t.rows = <<>> THEN NONE
    ELSE Some(<<"table", schema, t.generation, t.rows>>)

BpDiffZones_to_bp_sled_subtable_addedFirst(zones, sled_id) ==
    LET t0 == EmptySubtable
        t1 == IF sled_id \in DOMAIN zones.unchanged
              THEN LET d == zones.unchanged[sled_id]
                   IN  ExtendSubtable(t0,
                        BpGenerationDiff(d.generation_before, d.generation_after),
                        BpDiffZoneDetails_rows(d, "Unchanged"))
              ELSE t0
        t2 == IF sled_id \in DOMAIN zones.added
              THEN LET d == zones.added[sled_id]
                   IN  ExtendSubtable(t1,
                        BpGenerationDiff(d.generation_before, d.generation_after),
                        BpDiffZoneDetails_rows(d, "Added"))
              ELSE t1
        t3 == IF sled_id \in DOMAIN zones.removed
              THEN LET d == zones.removed[sled_id]
                   IN  ExtendSubtable(t2,
                        BpGenerationDiff(d.generation_before, d.generation_after),
                        BpDiffZoneDetails_rows(d, "Removed"))
              ELSE t2
        t4 == IF sled_id \in DOMAIN zones.modified
              THEN LET d == zones.modified[sled_id]
                   IN  ExtendSubtable(t3,
                        BpGenerationDiff(Some(d.generation_before),
                                         Some(d.generation_after)),
                        BpDiffZonesModified_rows(d, "Modified"))
              ELSE t3
    IN  SubtableOption("zones", t4)

\* BpDiffZones::to_bp_sled_subtable
BpDiffZones_to_bp_sled_subtable(zones, sled_id) ==
    LET t0 == EmptySubtable
        t1 == IF sled_id \in DOMAIN zones.unchanged
              THEN LET d == zones.unchanged[sled_id]
                   IN  ExtendSubtable(t0,
                        BpGenerationDiff(d.generation_before, d.generation_after),
                        BpDiffZoneDetails_rows(d, "Unchanged"))
              ELSE t0
        t2 == IF sled_id \in DOMAIN zones.removed
              THEN LET d == zones.removed[sled_id]
                   IN  ExtendSubtable(t1,
                        BpGenerationDiff(d.generation_before, d.generation_after),
                        BpDiffZoneDetails_rows(d, "Removed"))
              ELSE t1
        t3 == IF sled_id \in DOMAIN zones.modified
              THEN LET d == zones.modified[sled_id]
                   IN  ExtendSubtable(t2,
                        BpGenerationDiff(Some(d.generation_before),
                                         Some(d.generation_after)),
                        BpDiffZonesModified_rows(d, "Modified"))
              ELSE t2
        t4 == IF sled_id \in DOMAIN zones.added
              THEN LET d == zones.added[sled_id]
                   IN  ExtendSubtable(t3,
                        BpGenerationDiff(d.generation_before, d.generation_after),
                        BpDiffZoneDetails_rows(d, "Added"))
              ELSE t3
    IN  SubtableOption("zones", t4)

\* BpDiffPhysicalDisks::to_bp_sled_subtable
BpDiffPhysicalDisks_to_bp_sled_subtable(disks, sled_id) ==
    LET step(t, bucket, state) ==
            IF sled_id \in DOMAIN disks[bucket]
            THEN LET d == disks[bucket][sled_id]
                 IN  ExtendSubtable(t,
                        BpGenerationDiff(d.before_generation, d.after_generation),
                        DiffPhysicalDisksDetails_rows(d, state))
            ELSE t
        t1 == step(EmptySubtable, "unchanged", "Unchanged")
        t2 == step(t1, "removed", "Removed")
        t3 == step(t2, "added", "Added")
    IN  SubtableOption("physical disks", t3)

\* BpDiffDatasets::to_bp_sled_subtable
BpDiffDatasets_to_bp_sled_subtable(datasets, sled_id) ==
    LET step(t, bucket, state) ==
            IF sled_id \in DOMAIN datasets[bucket]
            THEN LET d == datasets[bucket][sled_id]
                 IN  ExtendSubtable(t,
                        BpGenerationDiff(d.before_generation, d.after_generation),
                        DiffDatasetsDetails_rows(d, state))
            ELSE t
        t1 == step(EmptySubtable, "unchanged", "Unchanged")
        t2 == step(t1, "removed", "Removed")
        t3 == IF sled_id \in DOMAIN datasets.modified
              THEN LET d == datasets.modified[sled_id]
                   IN  ExtendSubtable(t2,
                        BpGenerationDiff(d.generation_before, d.generation_after),
                        BpDiffDatasetsModified_rows(d, "Modified"))
              ELSE t2
        t4 == step(t3, "added", "Added")
    IN  SubtableOption("datasets", t4)

\* BlueprintDiffDisplay::write_tables: the tables of a sled that exist.
write_tables(r, sled_id) ==
    BpDiffPhysicalDisks_to_bp_sled_subtable(r.physical_disks, sled_id)
    \o BpDiffDatasets_to_bp_sled_subtable(r.datasets, sled_id)
    \o BpDiffZones_to_bp_sled_subtable(r.zones, sled_id)

\* <SledState as Display>::fmt
SledStateStr(state) ==
    IF state = "Active" THEN "active" ELSE "decommissioned"

\* The {:?} form of an Option<&SledState>.
DebugState(opt) ==
    IF opt = NONE THEN <<"None">> ELSE <<"Some(", opt[1], ")">>

sled_state_unchanged(r, sled_id) ==
    LET before == MapGet(r.before_state, sled_id)
        after == MapGet(r.after_state, sled_id)
    IN  IF before = after
        THEN IF after = NONE THEN <<"state unknown">>
             ELSE <<SledStateStr(after[1])>>
        ELSE <<"blueprint diff error: unchanged sled changed state from ">>
             \o DebugState(before) \o <<" to ">> \o DebugState(after)

sled_state_added(r, sled_id) ==
    LET before == MapGet(r.before_state, sled_id)
        after == MapGet(r.after_state, sled_id)
    IN  IF before = NONE
        THEN IF after = NONE THEN <<"unknown">>
             ELSE <<SledStateStr(after[1])>>
        ELSE <<"blueprint diff error: added sled has old state ">>
             \o DebugState(before) \o <<" (now ">> \o DebugState(after)
             \o <<")">>

sled_state_removed(r, sled_id) ==
    LET before == MapGet(r.before_state, sled_id)
        after == MapGet(r.after_state, sled_id)
    IN  IF after = NONE
        THEN IF before = NONE THEN <<"state was unknown">>
             ELSE <<"was ", SledStateStr(before[1])>>
        ELSE <<"blueprint diff error: removed sled has new state ">>
             \o DebugState(after) \o <<" (was ">> \o DebugState(before)
             \o <<")">>

sled_state_modified(r, sled_id) ==
    LET before == MapGet(r.before_state, sled_id)
        after == MapGet(r.after_state, sled_id)
    IN  IF before # NONE /\ after # NONE
        THEN IF before # after
             THEN <<SledStateStr(before[1]), " -> ", SledStateStr(after[1])>>
             ELSE <<SledStateStr(before[1])>>
        ELSE IF before = NONE /\ after # NONE
        THEN <<"unknown -> ", SledStateStr(after[1])>>
        ELSE IF before # NONE
        THEN <<SledStateStr(before[1]), " -> unknown">>
        ELSE <<"unknown">>

NOT_PRESENT_IN_COLLECTION_PARENS == "(not present in collection)"

NONE_PARENS == "(none)"

INVALID_VALUE_PARENS == "(invalid value)"

linear_table_modified(before, after) == <<"modified", before, after>>

linear_table_unchanged(value) == <<"unchanged", value>>

KvPair(state, label, value) ==
    [state |-> state, label |-> label, value |-> value]

display_none_if_empty(value) == IF value = "" THEN NONE_PARENS ELSE value

display_optional_preserve_downgrade(value) ==
    IF value = NONE THEN INVALID_VALUE_PARENS ELSE value[1]

\* The $display argument of diff_row!, named by the function it is.
ApplyDisplay(display, value) ==
    IF display = "display_none_if_empty" THEN display_none_if_empty(value)
    ELSE IF display = "display_optional_preserve_downgrade"
    THEN display_optional_preserve_downgrade(value)
    ELSE value

\* diff_row! that reports every row of a blueprint's metadata as Modified.
diff_row_alwaysModified(r, member, label, display) ==
    IF r.before_meta.collection
    THEN KvPair("Added", label,
            linear_table_modified(NOT_PRESENT_IN_COLLECTION_PARENS,
                ApplyDisplay(display, r.after_meta[member])))
    ELSE KvPair("Modified", label,
            linear_table_modified(
                ApplyDisplay(display, r.before_meta.meta[1][member]),
                ApplyDisplay(display, r.after_meta[member])))

\* The diff_row! macro.
diff_row(r, member, label, display) ==
    IF r.before_meta.collection
    THEN KvPair("Added", label,
            linear_table_modified(NOT_PRESENT_IN_COLLECTION_PARENS,
                ApplyDisplay(display, r.after_meta[member])))
    ELSE LET before == r.before_meta.meta[1]
         IN  IF before[member] = r.after_meta[member]
             THEN KvPair("Unchanged", label,
                    linear_table_unchanged(
                        ApplyDisplay(display, r.after_meta[member])))
             ELSE KvPair("Modified", label,
                    linear_table_modified(
                        ApplyDisplay(display, before[member]),
                        ApplyDisplay(display, r.after_meta[member])))

KvListWithHeading(heading, rows) == <<"kvlist", heading, rows>>

\* BlueprintDiffDisplay::make_metadata_diff_tables
make_metadata_diff_tables(r) ==
    <<KvListWithHeading("COCKROACHDB_HEADING",
        <<diff_row(r, "cockroachdb_fingerprint", "COCKROACHDB_FINGERPRINT",
                   "display_none_if_empty"),
          diff_row(r, "cockroachdb_setting_preserve_downgrade",
                   "COCKROACHDB_PRESERVE_DOWNGRADE",
                   "display_optional_preserve_downgrade")>>),
      KvListWithHeading("METADATA_HEADING",
        <<diff_row(r, "internal_dns_version", "INTERNAL_DNS_VERSION",
                   "identity"),
          diff_row(r, "external_dns_version", "EXTERNAL_DNS_VERSION",
                   "identity")>>)>>

RECURSIVE SledSection(_, _, _)
\* `for sled_id in &diff.sleds_...`: the sled line and the tables of each
\* sled of the section named by state.
SledSection(r, state, todo) ==
    IF todo = {} THEN <<>>
    ELSE LET sled_id == MinOf(todo)
             text == IF state = "unchanged" THEN sled_state_unchanged(r, sled_id)
                     ELSE IF state = "removed" THEN sled_state_removed(r, sled_id)
                     ELSE IF state = "modified"
                     THEN sled_state_modified(r, sled_id)
                     ELSE sled_state_added(r, sled_id)
         IN  <<<<"sled", sled_id, text>>>> \o write_tables(r, sled_id)
             \o SledSection(r, state, todo \ {sled_id})

RECURSIVE ErrorLines_firstOnly(_, _)
ErrorLines_firstOnly(errors, i) ==
    IF i > 1 THEN <<>>
    ELSE <<<<"zone id", errors[i].zone_before.id>>,
           <<"reason", errors[i].reason>>>>
         \o ErrorLines_firstOnly(errors, i + 1)

RECURSIVE ErrorLines(_, _)
\* `for err in &errors.errors`
ErrorLines(errors, i) ==
    IF i > Len(errors) THEN <<>>
    ELSE <<<<"zone id", errors[i].zone_before.id>>,
           <<"reason", errors[i].reason>>>> \o ErrorLines(errors, i + 1)

RECURSIVE ErrorSection(_, _)
\* `for (sled_id, errors) in &diff.zones.errors`
ErrorSection(r, todo) ==
    IF todo = {} THEN <<>>
    ELSE LET sled_id == MinOf(todo)
             errors == r.zones.errors[sled_id]
         IN  <<<<"error sled", sled_id>>,
               <<"zone diff errors", errors.generation_before,
                 errors.generation_after>>>>
             \o ErrorLines(errors.errors, 1)
             \o ErrorSection(r, todo \ {sled_id})

Heading(text) == <<"heading", text>>

BlueprintDiffDisplay_fmt_addedFirst(r) ==
    <<<<"from", IF r.before_meta.collection THEN "collection" ELSE "blueprint",
        r.before_meta.id, r.after_meta.id>>>>
    \o (IF r.sleds_added # {}
        THEN <<Heading(" ADDED SLEDS:")>>
             \o SledSection(r, "added", r.sleds_added)
        ELSE <<>>)
    \o (IF r.sleds_unchanged # {}
        THEN <<Heading(" UNCHANGED SLEDS:")>>
             \o SledSection(r, "unchanged", r.sleds_unchanged)
        ELSE <<>>)
    \o (IF r.sleds_removed # {}
        THEN <<Heading(" REMOVED SLEDS:")>>
             \o SledSection(r, "removed", r.sleds_removed)
        ELSE <<>>)
    \o (IF r.sleds_modified # {}
        THEN <<Heading(" MODIFIED SLEDS:")>>
             \o SledSection(r, "modified", r.sleds_modified)
        ELSE <<>>)
    \o (IF DOMAIN r.zones.errors # {}
        THEN <<Heading("ERRORS:")>>
             \o ErrorSection(r, DOMAIN r.zones.errors)
        ELSE <<>>)
    \o make_metadata_diff_tables(r)

\* <BlueprintDiffDisplay as fmt::Display>::fmt
BlueprintDiffDisplay_fmt(r) ==
    <<<<"from", IF r.before_meta.collection THEN "collection" ELSE "blueprint",
        r.before_meta.id, r.after_meta.id>>>>
    \o (IF r.sleds_unchanged # {}
        THEN <<Heading(" UNCHANGED SLEDS:")>>
             \o SledSection(r, "unchanged", r.sleds_unchanged)
        ELSE <<>>)
    \o (IF r.sleds_removed # {}
        THEN <<Heading(" REMOVED SLEDS:")>>
             \o SledSection(r, "removed", r.sleds_removed)
        ELSE <<>>)
    \o (IF r.sleds_modified # {}
        THEN <<Heading(" MODIFIED SLEDS:")>>
             \o SledSection(r, "modified", r.sleds_modified)
        ELSE <<>>)
    \o (IF r.sleds_added # {}
        THEN <<Heading(" ADDED SLEDS:")>>
             \o SledSection(r, "added", r.sleds_added)
        ELSE <<>>)
    \o (IF DOMAIN r.zones.errors # {}
        THEN <<Heading("ERRORS:")>>
             \o ErrorSection(r, DOMAIN r.zones.errors)
        ELSE <<>>)
    \o make_metadata_diff_tables(r)

---------------------------------------------------------------------------
\* The inputs of BlueprintDiff::new.  One sled of the fleet (the sled under
\* test) takes its input from a wide set; every other sled takes one of a
\* few whole-sled profiles.  A per-sled input names, for each of the eight
\* argument maps, the sled's entry as an Option.

BaseZone(id) ==
    IF id = 1 THEN ZoneConfig(1, "A", "InService", "10.0.0.1", "t1")
    ELSE ZoneConfig(id, "A", "InService", "10.0.0.2", "t1")

Expunged(z) == [z EXCEPT !.disposition = "Expunged"]

OtherKind(z) == [z EXCEPT !.kind = "B"]

OtherIp(z) == [z EXCEPT !.underlay_ip = "10.0.0.9"]

OtherZoneType(z) == [z EXCEPT !.zone_type = "t2"]

\* The records a zone id can have in the after snapshot.
ZoneVariants(id) ==
    LET b == BaseZone(id)
    IN  IF id = 1
        THEN {b, Expunged(b), OtherKind(b), OtherIp(b), OtherZoneType(b),
              OtherIp(OtherKind(b)), OtherZoneType(OtherIp(OtherKind(b)))}
        ELSE {b, Expunged(b), OtherKind(b), OtherIp(b)}

\* The zone sets of a before entry: the base records, and zone 1 of kind B.
BeforeZoneSets ==
    {{BaseZone(i) : i \in I} : I \in SUBSET ZoneIds}
    \cup {{OtherKind(BaseZone(1))}, {OtherKind(BaseZone(1)), BaseZone(2)}}

\* Vecs of after zones in ascending id order.
AfterZoneVecs ==
    {<<>>}
    \cup {<<z>> : z \in ZoneVariants(1) \cup ZoneVariants(2)}
    \cup {<<y, z>> : y \in ZoneVariants(1), z \in ZoneVariants(2)}

\* Vecs of after zones that are not in id order.
AfterZoneVecsReversed ==
    {<<z, y>> : y \in ZoneVariants(1), z \in ZoneVariants(2)}

D1 == DiskIdentity("v1", "m1", "s1")

D2 == DiskIdentity("v1", "m1", "s2")

D3 == DiskIdentity("v2", "m1", "s1")

DiskSets == {S \in SUBSET {D1, D2, D3} : Cardinality(S) <= 2}

\* BlueprintPhysicalDiskConfig { identity, id, .. }
DiskConfig(d) == [identity |-> d, id |-> <<"disk", d.vendor, d.serial>>]

BaseDataset(id) == DatasetConfig(id, "none", "off")

WithQuota(d) == [d EXCEPT !.quota = "100 GiB"]

BeforeDatasetMaps ==
    {[i \in I |-> BaseDataset(i)] : I \in SUBSET DatasetIds}

AfterDatasetMaps ==
    UNION {[I -> {BaseDataset(1), WithQuota(BaseDataset(1)),
                  BaseDataset(2), WithQuota(BaseDataset(2))}]
            : I \in SUBSET DatasetIds}

WellKeyed(m) == \A i \in DOMAIN m : m[i].id = i

\* Generation numbers: one per sled and category, raised by one in the after
\* snapshot when the sled's records of the category changed.
CategoryOffset == [zones |-> 1, disks |-> 3, datasets |-> 5]

GenBefore(cat, s) == 10 * s + CategoryOffset[cat]

GenAfter(cat, s, same) ==
    IF same THEN GenBefore(cat, s) ELSE GenBefore(cat, s) + 1

ZonesBefore(s, zs) == [generation |-> GenBefore("zones", s), zones |-> zs]

ZonesAfter(s, q, same) ==
    [generation |-> GenAfter("zones", s, same), zones |-> q]

\* A before entry from a collection has no generation.
DisksBefore(s, ds, from_collection) ==
    [generation |->
        IF from_collection THEN NONE ELSE Some(GenBefore("disks", s)),
     disks |-> ds]

DisksAfter(s, ds, same) ==
    [generation |-> GenAfter("disks", s, same),
     disks |-> {DiskConfig(d) : d \in ds}]

DatasetsBefore(s, m, from_collection) ==
    [generation |->
        IF from_collection THEN NONE ELSE Some(GenBefore("datasets", s)),
     datasets |-> m]

DatasetsAfter(s, m, same) ==
    [generation |-> GenAfter("datasets", s, same), datasets |-> m]

\* <<before entry, after entry>> pairs of one sled, per category.
OptionalState == {NONE} \cup {Some(st) : st \in SledState}

StatePairs == OptionalState \X OptionalState

ZonePairsWide(s) ==
    {<<Some(ZonesBefore(s, zs)), Some(ZonesAfter(s, q, SeqToSet(q) = zs))>> :
        zs \in BeforeZoneSets, q \in AfterZoneVecs}
    \cup {<<Some(ZonesBefore(s, zs)), NONE>> : zs \in BeforeZoneSets}
    \cup {<<NONE, Some(ZonesAfter(s, q, FALSE))>> :
            q \in AfterZoneVecs \cup AfterZoneVecsReversed}

DiskPairsWide(s) ==
    LET befores == {DisksBefore(s, ds, FALSE) : ds \in DiskSets}
                   \cup {DisksBefore(s, ds, TRUE) : ds \in {{}, {D1}}}
    IN  {<<Some(b), Some(DisksAfter(s, ds, ds = b.disks))>> :
            b \in befores, ds \in DiskSets}
        \cup {<<Some(b), NONE>> : b \in befores}
        \cup {<<NONE, Some(DisksAfter(s, ds, FALSE))>> : ds \in DiskSets}

DatasetPairsWide(s) ==
    LET befores == {DatasetsBefore(s, m, FALSE) : m \in BeforeDatasetMaps}
                   \cup {DatasetsBefore(s, [i \in {1} |-> BaseDataset(1)], TRUE)}
        afters == {m \in AfterDatasetMaps : WellKeyed(m)}
    IN  {<<Some(b), Some(DatasetsAfter(s, m, m = b.datasets))>> :
            b \in befores, m \in afters}
        \cup {<<Some(b), NONE>> : b \in befores}
        \cup {<<NONE, Some(DatasetsAfter(s, m, FALSE))>> : m \in afters}

ZonesSame(s) == <<Some(ZonesBefore(s, {BaseZone(1)})),
                  Some(ZonesAfter(s, <<BaseZone(1)>>, TRUE))>>

DisksSame(s) ==
    <<Some(DisksBefore(s, {D1}, FALSE)), Some(DisksAfter(s, {D1}, TRUE))>>

DatasetsSame(s) ==
    <<Some(DatasetsBefore(s, [i \in {1} |-> BaseDataset(1)], FALSE)),
      Some(DatasetsAfter(s, [i \in {1} |-> BaseDataset(1)], TRUE))>>

\* Present or absent on each side, with unchanged records.
PairsFew(same) ==
    {<<NONE, NONE>>, same, <<same[1], NONE>>, <<NONE, same[2]>>}

SledInput(st, z, d, t) ==
    [bs |-> st[1], as |-> st[2], bz |-> z[1], az |-> z[2],
     bd |-> d[1], ad |-> d[2], bt |-> t[1], at |-> t[2]]

NoPair == <<NONE, NONE>>

\* Every combination of present and absent entries of a sled.
FewSledInputs(s) ==
    {SledInput(st, z, d, t) :
        st \in StatePairs, z \in PairsFew(ZonesSame(s)),
        d \in PairsFew(DisksSame(s)), t \in {NoPair, DatasetsSame(s)}}

\* The sled of the worked example: zone 1 goes from InService to Expunged
\* and disk D2 joins disk D1.
ScenarioSledInputs(s) ==
    {SledInput(st,
        <<Some(ZonesBefore(s, {BaseZone(1)})),
          Some(ZonesAfter(s, <<Expunged(BaseZone(1))>>, FALSE))>>,
        <<Some(DisksBefore(s, {D1}, FALSE)),
          Some(DisksAfter(s, {D1, D2}, FALSE))>>,
        t) :
        st \in {NoPair, <<Some("Active"), Some("Active")>>},
        t \in {NoPair, DatasetsSame(s)}}

\* The inputs of the sled under test: every combination of present and
\* absent entries, the worked example, and the wide pairs of one category at
\* a time.
WideSledInputs(s) ==
    LET rest == {<<<<Some("Active"), Some("Active")>>, TRUE>>,
                 <<<<NONE, NONE>>, FALSE>>,
                 <<<<Some("Decommissioned"), NONE>>, FALSE>>}
        zs(c) == IF c[2] THEN ZonesSame(s) ELSE NoPair
        ds(c) == IF c[2] THEN DisksSame(s) ELSE NoPair
        ts(c) == IF c[2] THEN DatasetsSame(s) ELSE NoPair
    IN  FewSledInputs(s)
        \cup ScenarioSledInputs(s)
        \cup {SledInput(c[1], z, ds(c), ts(c)) :
                c \in rest, z \in ZonePairsWide(s)}
        \cup {SledInput(c[1], zs(c), d, ts(c)) :
                c \in rest, d \in DiskPairsWide(s)}
        \cup {SledInput(c[1], zs(c), ds(c), t) :
                c \in rest, t \in DatasetPairsWide(s)}

\* The whole-sled profiles of the other sleds: not in the fleet, unchanged,
\* added, removed, and changed in every category with a zone error.
OtherSledProfiles(s) ==
    LET same == SledInput(<<Some("Active"), Some("Active")>>, ZonesSame(s),
                          DisksSame(s), DatasetsSame(s))
    IN  <<SledInput(NoPair, NoPair, NoPair, NoPair),
         same,
         [same EXCEPT !.bs = NONE, !.bz = NONE, !.bd = NONE, !.bt = NONE],
         [same EXCEPT !.as = NONE, !.az = NONE, !.ad = NONE, !.at = NONE],
         SledInput(<<Some("Active"), Some("Active")>>,
            <<Some(ZonesBefore(s, {BaseZone(1), BaseZone(2)})),
              Some(ZonesAfter(s, <<Expunged(BaseZone(1)), OtherIp(BaseZone(2))>>,
                              FALSE))>>,
            <<Some(DisksBefore(s, {D1, D2}, FALSE)),
              Some(DisksAfter(s, {D1, D3}, FALSE))>>,
            <<Some(DatasetsBefore(s, [i \in {1} |-> BaseDataset(1)], FALSE)),
              Some(DatasetsAfter(s,
                    [i \in {1, 2} |-> IF i = 1 THEN WithQuota(BaseDataset(1))
                                      ELSE BaseDataset(2)], FALSE))>>)>>

ProfileIds == DOMAIN OtherSledProfiles(1)

\* The per-sled inputs of the fleet: sled `wide` is the sled under test with
\* input h, and o is the profile of the other sleds.
FleetInput(wide, h, o) ==
    [s \in Sleds |-> IF s = wide THEN h ELSE OtherSledProfiles(s)[o]]

\* BlueprintMetadata: the fields that the metadata tables show.
BlueprintMetadata(id, fingerprint, preserve_downgrade, internal_dns, external_dns) ==
    [id |-> id,
     cockroachdb_fingerprint |-> fingerprint,
     cockroachdb_setting_preserve_downgrade |-> preserve_downgrade,
     internal_dns_version |-> internal_dns,
     external_dns_version |-> external_dns]

\* DiffBeforeMetadata::Collection { id } and DiffBeforeMetadata::Blueprint.
MetaCollection(id) == [collection |-> TRUE, id |-> id, meta |-> NONE]

MetaBlueprint(meta) == [collection |-> FALSE, id |-> meta.id, meta |-> Some(meta)]

ParentMeta == BlueprintMetadata("bp1", "", NONE, 1, 1)

ChildMeta == BlueprintMetadata("bp2", "fp", Some("22.1"), 2, 1)

\* <<before_meta, after_meta>> of a call: a blueprint against itself, against
\* its child and against its parent, and a collection against either
\* blueprint.
MetaPairs ==
    {<<MetaBlueprint(ChildMeta), ChildMeta>>,
     <<MetaBlueprint(ParentMeta), ChildMeta>>,
     <<MetaBlueprint(ChildMeta), ParentMeta>>,
     <<MetaCollection("c1"), ChildMeta>>,
     <<MetaCollection("c1"), ParentMeta>>}

\* The metadata varies with the present and absent entries of the sled under
\* test, and is that of a blueprint and its child with the wide pairs.
MetaPairsFor(s, h) ==
    IF h \in FewSledInputs(s) THEN MetaPairs
    ELSE {<<MetaBlueprint(ParentMeta), ChildMeta>>}

\* The argument map built from the per-sled inputs: the sleds with an entry.
ArgMap(f, field) ==
    [s \in {x \in DOMAIN f : f[x][field] # NONE} |-> f[s][field][1]]

---------------------------------------------------------------------------
\* State: the ten arguments of a call of BlueprintDiff::new, the BlueprintDiff
\* it returns, and the text that displaying the BlueprintDiff writes; and, for
\* calls that run at the same time, the frame of each call; and, for a call
\* of ModifiedZone::new by itself, its arguments and its result.

VARIABLES before_meta, before_state, before_zones, before_disks,
          before_datasets, after_meta, after_state, after_zones, after_disks,
          after_datasets, diff, out, pc, calls, validation

vars == <<before_meta, before_state, before_zones, before_disks,
          before_datasets, after_meta, after_state, after_zones, after_disks,
          after_datasets, diff, out, pc, calls, validation>>

args == <<before_meta, before_state, before_zones, before_disks,
          before_datasets, after_meta, after_state, after_zones, after_disks,
          after_datasets>>

Init ==
    /\ \E wide \in Sleds :
       \E h \in WideSledInputs(wide) :
       \E o \in ProfileIds :
       \E m \in MetaPairsFor(wide, h) :
        LET f == FleetInput(wide, h, o) IN
        /\ before_meta = m[1]
        /\ after_meta = m[2]
        /\ before_state = ArgMap(f, "bs")
        /\ before_zones = ArgMap(f, "bz")
        /\ before_disks = ArgMap(f, "bd")
        /\ before_datasets = ArgMap(f, "bt")
        /\ after_state = ArgMap(f, "as")
        /\ after_zones = ArgMap(f, "az")
        /\ after_disks = ArgMap(f, "ad")
        /\ after_datasets = ArgMap(f, "at")
    /\ diff = EmptyMap
    /\ out = <<>>
    /\ pc = "call"
    /\ calls = <<>>
    /\ validation = NONE

\* A call of BlueprintDiff::new: it returns the report, unless the assertion
\* of the zone diff fails and the call panics.
New ==
    /\ pc = "call"
    /\ IF BpDiffZones_panics(before_zones, after_zones)
       THEN /\ pc' = "panicked"
            /\ diff' = diff
       ELSE /\ pc' = "returned"
            /\ diff' = BlueprintDiff_new(before_meta, before_state,
                            before_zones, before_disks, before_datasets,
                            after_meta, after_state, after_zones, after_disks,
                            after_datasets)
    /\ UNCHANGED <<args, out, calls, validation>>

\* format!("{}", diff.display()) on the returned BlueprintDiff.
Display ==
    /\ pc = "returned"
    /\ out' = BlueprintDiffDisplay_fmt(diff)
    /\ pc' = "displayed"
    /\ UNCHANGED <<args, diff, calls, validation>>

Next == New \/ Display

Spec == Init /\ [][Next]_vars

---------------------------------------------------------------------------
\* Calls of BlueprintDiff::new that run at the same time, one per request.
\* A call owns its arguments and its locals (its frame); a step of a call is
\* one statement group of the function body.

\* Number of calls that run at the same time.
NumCalls == 2

Callers == 1..NumCalls

\* The arguments of a call, from the per-sled inputs f and the metadata m.
ArgsOf(f, m) ==
    [before_meta |-> m[1], before_state |-> ArgMap(f, "bs"),
     before_zones |-> ArgMap(f, "bz"), before_disks |-> ArgMap(f, "bd"),
     before_datasets |-> ArgMap(f, "bt"), after_meta |-> m[2],
     after_state |-> ArgMap(f, "as"), after_zones |-> ArgMap(f, "az"),
     after_disks |-> ArgMap(f, "ad"), after_datasets |-> ArgMap(f, "at")]

\* The snapshot pairs of the calls: a decommissioned sled with leftover zones
\* next to a changed sled, an unchanged sled next to an added sled, and a
\* sled with a zone error next to a removed sled.
CallInputs ==
    LET meta == <<MetaBlueprint(ParentMeta), ChildMeta>>
        leftover == SledInput(<<Some("Decommissioned"), NONE>>,
                        <<NONE, ZonesSame(1)[2]>>, NoPair, NoPair)
        same == SledInput(<<Some("Active"), Some("Active")>>, ZonesSame(1),
                          DisksSame(1), DatasetsSame(1))
        error == [same EXCEPT
                    !.az = Some(ZonesAfter(1, <<OtherKind(BaseZone(1))>>, FALSE))]
    IN  {ArgsOf(FleetInput(1, leftover, 5), meta),
         ArgsOf(FleetInput(1, same, 3), meta),
         ArgsOf(FleetInput(1, error, 4), meta),
         ArgsOf(FleetInput(1, same, 2), <<MetaCollection("c1"), ChildMeta>>)}

\* The frame of a call that has not started: its arguments and its locals.
NewFrame(given) ==
    [given |-> given, at |-> "patch", after_state |-> given.after_state,
     before_sleds |-> {}, after_sleds |-> {}, zones |-> EmptyZoneDiffs,
     physical_disks |-> EmptyDiskDiffs, datasets |-> EmptyDatasetDiffs,
     result |-> NONE]

\* The next statement group of BlueprintDiff::new in the frame c.
FrameStep(c) ==
    LET g == c.given
    IN  IF c.at = "patch"
        THEN [c EXCEPT !.at = "sleds",
                !.after_state = DecommissionPatch(g.before_state,
                    DOMAIN g.before_state, g.after_state, g.after_zones,
                    g.after_disks)]
        ELSE IF c.at = "sleds"
        THEN [c EXCEPT !.at = "zones",
                !.before_sleds = SledsOf(g.before_state, g.before_zones,
                    g.before_disks, g.before_datasets),
                !.after_sleds = SledsOf(c.after_state, g.after_zones,
                    g.after_disks, g.after_datasets)]
        ELSE IF c.at = "zones"
        THEN [c EXCEPT !.at = "disks",
                !.zones = BpDiffZones_new(g.before_zones, g.after_zones)]
        ELSE IF c.at = "disks"
        THEN [c EXCEPT !.at = "datasets",
                !.physical_disks =
                    BpDiffPhysicalDisks_new(g.before_disks, g.after_disks)]
        ELSE IF c.at = "datasets"
        THEN [c EXCEPT !.at = "classify",
                !.datasets =
                    BpDiffDatasets_new(g.before_datasets, g.after_datasets)]
        ELSE LET added == c.after_sleds \ c.before_sleds
                 removed == c.before_sleds \ c.after_sleds
                 sleds_unchanged_or_modified ==
                    {sled_id \in c.before_sleds \cup c.after_sleds :
                        sled_id \notin added /\ sled_id \notin removed}
                 modified ==
                    {sled_id \in sleds_unchanged_or_modified :
                        SledIsModified(sled_id, g.before_state, c.after_state,
                            c.zones, c.physical_disks, c.datasets)}
             IN  [c EXCEPT !.at = "done",
                    !.result = Some(
                        [before_meta |-> g.before_meta,
                         after_meta |-> g.after_meta,
                         before_state |-> g.before_state,
                         after_state |-> c.after_state,
                         zones |-> c.zones,
                         physical_disks |-> c.physical_disks,
                         datasets |-> c.datasets,
                         sleds_added |-> added,
                         sleds_removed |-> removed,
                         sleds_unchanged |->
                            sleds_unchanged_or_modified \ modified,
                         sleds_modified |-> modified])]

RunStep_sharedAfterState(frames, t) ==
    LET stepped == FrameStep(frames[t])
    IN  [u \in DOMAIN frames |->
            IF u = t THEN stepped
            ELSE [frames[u] EXCEPT !.after_state = stepped.after_state]]

\* A step of call t: the arguments were moved into the call and every local
\* is on the call's own stack, so only the frame of t changes.
RunStep(frames, t) ==
    [frames EXCEPT ![t] = FrameStep(frames[t])]

ConcInit ==
    /\ calls \in [Callers -> {NewFrame(given) : given \in CallInputs}]
    /\ before_meta = NONE
    /\ before_state = EmptyMap
    /\ before_zones = EmptyMap
    /\ before_disks = EmptyMap
    /\ before_datasets = EmptyMap
    /\ after_meta = NONE
    /\ after_state = EmptyMap
    /\ after_zones = EmptyMap
    /\ after_disks = EmptyMap
    /\ after_datasets = EmptyMap
    /\ diff = EmptyMap
    /\ out = <<>>
    /\ pc = "concurrent"
    /\ validation = NONE

\* One step of the call of caller t.
CallStep(t) ==
    /\ calls[t].at # "done"
    /\ calls' = RunStep(calls, t)
    /\ UNCHANGED <<args, diff, out, pc, validation>>

ConcNext == \E t \in Callers : CallStep(t)

SpecConc == ConcInit /\ [][ConcNext]_vars

---------------------------------------------------------------------------
\* A call of ModifiedZone::new by itself, on any two records of one zone id.

\* The records of zone 1: every kind, disposition, underlay IP and zone type.
ValidatorZones ==
    {ZoneConfig(1, kind, disposition, ip, zt) :
        kind \in {"A", "B"}, disposition \in {"InService", "Expunged"},
        ip \in {"10.0.0.1", "10.0.0.9"}, zt \in {"t1", "t2"}}

ValidatorInit ==
    /\ \E before \in ValidatorZones : \E after \in ValidatorZones :
        validation = Some([before |-> before, after |-> after, result |-> NONE])
    /\ before_meta = NONE
    /\ before_state = EmptyMap
    /\ before_zones = EmptyMap
    /\ before_disks = EmptyMap
    /\ before_datasets = EmptyMap
    /\ after_meta = NONE
    /\ after_state = EmptyMap
    /\ after_zones = EmptyMap
    /\ after_disks = EmptyMap
    /\ after_datasets = EmptyMap
    /\ diff = EmptyMap
    /\ out = <<>>
    /\ pc = "validator"
    /\ calls = <<>>

\* ModifiedZone::new(before, after)
Validate ==
    /\ validation # NONE
    /\ validation[1].result = NONE
    /\ validation' = Some([validation[1] EXCEPT !.result =
            Some(ModifiedZone_new(validation[1].before, validation[1].after))])
    /\ UNCHANGED <<args, diff, out, pc, calls>>

ValidatorNext == Validate

SpecValidator == ValidatorInit /\ [][ValidatorNext]_vars

---------------------------------------------------------------------------
\* Vocabulary of the properties.

Returned == pc = "returned"

\* The sleds' entries of the argument maps, an absent entry read as empty.
BeforeZones(s) ==
    IF s \in DOMAIN before_zones THEN before_zones[s].zones ELSE {}

AfterZones(s) ==
    IF s \in DOMAIN after_zones THEN SeqToSet(after_zones[s].zones) ELSE {}

BeforeDisks(s) ==
    IF s \in DOMAIN before_disks THEN before_disks[s].disks ELSE {}

AfterDisks(s) ==
    IF s \in DOMAIN after_disks
    THEN {d.identity : d \in after_disks[s].disks} ELSE {}

BeforeDatasets(s) ==
    IF s \in DOMAIN before_datasets THEN before_datasets[s].datasets
    ELSE EmptyMap

AfterDatasets(s) ==
    IF s \in DOMAIN after_datasets THEN after_datasets[s].datasets
    ELSE EmptyMap

IdsOf(zs) == {z.id : z \in zs}

\* The contents of the buckets of report r for sled s, a missing key read
\* as an empty bucket.
ZoneBucket(r, bucket, s) ==
    IF s \in DOMAIN r.zones[bucket]
    THEN SeqToSet(r.zones[bucket][s].zones) ELSE {}

ZoneErrors(r, s) ==
    IF s \in DOMAIN r.zones.errors
    THEN SeqToSet(r.zones.errors[s].errors) ELSE {}

DiskBucket(r, bucket, s) ==
    IF s \in DOMAIN r.physical_disks[bucket]
    THEN r.physical_disks[bucket][s].disks ELSE {}

DatasetBucketIds(r, bucket, s) ==
    IF s \in DOMAIN r.datasets[bucket]
    THEN DOMAIN r.datasets[bucket][s].datasets ELSE {}

DatasetModifiedIds(r, s) ==
    IF s \in DOMAIN r.datasets.modified
    THEN {m.before.id : m \in SeqToSet(r.datasets.modified[s].datasets)}
    ELSE {}

PairwiseDisjoint(sets) ==
    \A i, j \in DOMAIN sets : i # j => sets[i] \cap sets[j] = {}

UnionOf(sets) == UNION {sets[i] : i \in DOMAIN sets}

ZoneIdBuckets(r, s) ==
    <<IdsOf(ZoneBucket(r, "added", s)), IdsOf(ZoneBucket(r, "removed", s)),
      IdsOf(ZoneBucket(r, "unchanged", s)),
      {m.zone.id : m \in ZoneBucket(r, "modified", s)},
      {e.zone_before.id : e \in ZoneErrors(r, s)}>>

DiskBuckets(r, s) ==
    <<DiskBucket(r, "added", s), DiskBucket(r, "removed", s),
      DiskBucket(r, "unchanged", s)>>

DatasetIdBuckets(r, s) ==
    <<DatasetBucketIds(r, "added", s), DatasetBucketIds(r, "removed", s),
      DatasetBucketIds(r, "unchanged", s), DatasetModifiedIds(r, s)>>

BeforeHosts ==
    (DOMAIN before_state) \cup (DOMAIN before_zones)
    \cup (DOMAIN before_disks) \cup (DOMAIN before_datasets)

AfterHosts ==
    (DOMAIN after_state) \cup (DOMAIN after_zones)
    \cup (DOMAIN after_disks) \cup (DOMAIN after_datasets)

\* The sled has a key in a bucket other than unchanged.
HasChangeKey(r, s) ==
    \/ \E b \in {"added", "removed", "modified", "errors"} :
            s \in DOMAIN r.zones[b]
    \/ \E b \in {"added", "removed"} : s \in DOMAIN r.physical_disks[b]
    \/ \E b \in {"added", "removed", "modified"} : s \in DOMAIN r.datasets[b]

\* The sled has a record in a bucket other than unchanged.
HasChangeRecord(r, s) ==
    \/ \E b \in {"added", "removed", "modified"} : ZoneBucket(r, b, s) # {}
    \/ ZoneErrors(r, s) # {}
    \/ \E b \in {"added", "removed"} : DiskBucket(r, b, s) # {}
    \/ \E b \in {"added", "removed"} : DatasetBucketIds(r, b, s) # {}
    \/ DatasetModifiedIds(r, s) # {}

StateChanged(r, s) == MapGet(r.before_state, s) # MapGet(r.after_state, s)

---------------------------------------------------------------------------
\* C1 (partition law).  For every sled and every category, the id sets of
\* the added, removed, unchanged, modified (and, for zones, errors) buckets
\* of the sled are pairwise disjoint, and their union is the union of the ids
\* the sled has in the before map and in the after map of the category.
C1_PartitionLaw ==
    Returned =>
        \A s \in Sleds :
            /\ PairwiseDisjoint(ZoneIdBuckets(diff, s))
            /\ UnionOf(ZoneIdBuckets(diff, s))
                = IdsOf(BeforeZones(s)) \cup IdsOf(AfterZones(s))
            /\ PairwiseDisjoint(DiskBuckets(diff, s))
            /\ UnionOf(DiskBuckets(diff, s)) = BeforeDisks(s) \cup AfterDisks(s)
            /\ PairwiseDisjoint(DatasetIdBuckets(diff, s))
            /\ UnionOf(DatasetIdBuckets(diff, s))
                = (DOMAIN BeforeDatasets(s)) \cup (DOMAIN AfterDatasets(s))

\* A report with a sled that has zone ids in two buckets, one of them the
\* errors bucket, a sled with disks in two buckets and a sled with dataset ids
\* in two buckets.
C1_Witness ==
    /\ Returned
    /\ \E s \in Sleds :
        /\ ZoneIdBuckets(diff, s)[5] # {}
        /\ \E i \in 1..4 : ZoneIdBuckets(diff, s)[i] # {}
    /\ \E s \in Sleds :
        Cardinality({i \in 1..3 : DiskBuckets(diff, s)[i] # {}}) >= 2
    /\ \E s \in Sleds :
        Cardinality({i \in 1..4 : DatasetIdBuckets(diff, s)[i] # {}}) >= 2

\* C2 (host classification totality).  The four sled sets are pairwise
\* disjoint, their union is the set of the keys of the eight argument maps,
\* sleds_added is the after hosts less the before hosts, and sleds_removed
\* the before hosts less the after hosts.
C2_HostTotality ==
    Returned =>
        LET sets == <<diff.sleds_added, diff.sleds_removed,
                      diff.sleds_modified, diff.sleds_unchanged>>
        IN  /\ PairwiseDisjoint(sets)
            /\ UnionOf(sets) = BeforeHosts \cup AfterHosts
            /\ diff.sleds_added = AfterHosts \ BeforeHosts
            /\ diff.sleds_removed = BeforeHosts \ AfterHosts

\* A sled that is a host only through its after datasets entry is added, next
\* to a sled of another class.
C2_Witness ==
    /\ Returned
    /\ \E s \in diff.sleds_added :
        /\ s \in DOMAIN after_datasets
        /\ s \notin (DOMAIN after_state) \cup (DOMAIN after_zones)
                    \cup (DOMAIN after_disks)
    /\ diff.sleds_removed \cup diff.sleds_modified \cup diff.sleds_unchanged
        # {}

\* C3, as claimed.  A sled in the before hosts and in the after hosts is in
\* sleds_modified if its state differs or a category holds an added, removed,
\* modified or errored record for it, and is in sleds_unchanged otherwise.
C3_Claimed ==
    Returned =>
        \A s \in BeforeHosts \cap AfterHosts :
            IF StateChanged(diff, s) \/ HasChangeRecord(diff, s)
            THEN s \in diff.sleds_modified
            ELSE s \in diff.sleds_unchanged

\* C4, as claimed.  A sled of either snapshot is in sleds_modified if and only
\* if its state differs or it has an entry in a bucket other than unchanged of
\* a category.
C4_Claimed ==
    Returned =>
        \A s \in BeforeHosts \cup AfterHosts :
            s \in diff.sleds_modified
                <=> (StateChanged(diff, s) \/ HasChangeKey(diff, s))

\* C4, amended.  A sled in the before hosts and in the after hosts is in
\* sleds_modified if and only if its state differs or it is a key of an
\* added, removed, modified or errors bucket of a category; a sled of one
\* side only is never in sleds_modified.
C4_ModifiedIff ==
    Returned =>
        /\ \A s \in BeforeHosts \cap AfterHosts :
            s \in diff.sleds_modified
                <=> (StateChanged(diff, s) \/ HasChangeKey(diff, s))
        /\ diff.sleds_modified \subseteq BeforeHosts \cap AfterHosts

\* A sled modified by its state alone, next to an added sled that has added
\* records and is not modified.
C4_Witness ==
    /\ Returned
    /\ \E s \in diff.sleds_modified :
        StateChanged(diff, s) /\ ~HasChangeKey(diff, s)
    /\ \E s \in diff.sleds_added : HasChangeRecord(diff, s)

\* The same-id pairs of before and after zone records of a sled that is a
\* key of both zone maps.
ZonePairs(s) ==
    IF s \in (DOMAIN before_zones) \cap (DOMAIN after_zones)
    THEN {<<zb, za>> \in BeforeZones(s) \X AfterZones(s) : zb.id = za.id}
    ELSE {}

SameStructure(zb, za) ==
    /\ zb.kind = za.kind
    /\ zb.underlay_ip = za.underlay_ip
    /\ zb.zone_type = za.zone_type

ErrorsFor(r, s, id) ==
    IF s \in DOMAIN r.zones.errors
    THEN LET errors == r.zones.errors[s].errors
         IN  {i \in 1..Len(errors) : errors[i].zone_before.id = id}
    ELSE {}

\* C5 (zone modification gate).  On a sled of both zone maps, a same-id pair
\* with equal kind, underlay_ip and zone_type and a different disposition is
\* in zones.modified of the sled, with the before disposition as
\* prior_disposition and the after record, and has no error.
C5_ModificationGate ==
    Returned =>
        \A s \in Sleds : \A p \in ZonePairs(s) :
            (SameStructure(p[1], p[2]) /\ p[1].disposition # p[2].disposition)
            => /\ [prior_disposition |-> p[1].disposition, zone |-> p[2]]
                    \in ZoneBucket(diff, "modified", s)
               /\ ErrorsFor(diff, s, p[1].id) = {}

\* A zone goes from InService to Expunged on a sled that keeps another zone.
C5_Witness ==
    /\ Returned
    /\ \E s \in Sleds : \E p \in ZonePairs(s) :
        /\ SameStructure(p[1], p[2])
        /\ p[1].disposition = "InService"
        /\ p[2].disposition = "Expunged"
        /\ Cardinality(ZonePairs(s)) = 2

\* C6.  On a sled of both zone maps, a same-id pair that differs in kind only
\* has exactly one error in zones.errors of the sled, which holds both
\* records and whose reason has the line "mismatched zone kind: before: <before
\* kind>, after: <after kind>"; the id is in no other zone bucket.
C6_KindMismatch ==
    Returned =>
        \A s \in Sleds : \A p \in ZonePairs(s) :
            (/\ p[1].kind # p[2].kind
             /\ [p[1] EXCEPT !.kind = p[2].kind] = p[2])
            => /\ Cardinality(ErrorsFor(diff, s, p[1].id)) = 1
               /\ \A i \in ErrorsFor(diff, s, p[1].id) :
                    LET e == diff.zones.errors[s].errors[i]
                    IN  /\ e.zone_before = p[1]
                        /\ e.zone_after = p[2]
                        /\ \E n \in 1..Len(e.reason) :
                            e.reason[n] =
                                <<"mismatched zone kind: before: ", p[1].kind,
                                  ", after: ", p[2].kind, "\n">>
               /\ \A i \in 1..4 : p[1].id \notin ZoneIdBuckets(diff, s)[i]

\* Zone 2 goes from kind A to kind B with nothing else changed.
C6_Witness ==
    /\ Returned
    /\ \E s \in Sleds : \E p \in ZonePairs(s) :
        /\ p[1].id = 2
        /\ p[1].kind = "A"
        /\ p[2].kind = "B"
        /\ [p[1] EXCEPT !.kind = "B"] = p[2]
        /\ ErrorsFor(diff, s, 2) # {}

\* C7 (decommission patch).  A sled whose before state is Decommissioned,
\* that has no entry in the after_state argument and has a non-empty after
\* zone list, has after state Decommissioned in the report and is neither in
\* sleds_removed nor in sleds_added.
C7_DecommissionPatch ==
    Returned =>
        \A s \in Sleds :
            (/\ MapGet(before_state, s) = Some("Decommissioned")
             /\ s \notin DOMAIN after_state
             /\ AfterZones(s) # {})
            => /\ MapGet(diff.after_state, s) = Some("Decommissioned")
               /\ s \notin diff.sleds_removed
               /\ s \notin diff.sleds_added

\* A decommissioned sled without after state whose only after entry is its
\* zones entry.
C7_Witness ==
    /\ Returned
    /\ \E s \in Sleds :
        /\ MapGet(before_state, s) = Some("Decommissioned")
        /\ s \notin DOMAIN after_state
        /\ AfterZones(s) # {}
        /\ s \notin (DOMAIN after_disks) \cup (DOMAIN after_datasets)
        /\ s \in DOMAIN diff.after_state

\* The after snapshot is a copy of the before snapshot.
IdenticalSnapshots ==
    /\ before_state = after_state
    /\ DOMAIN before_zones = DOMAIN after_zones
    /\ \A s \in DOMAIN before_zones :
        /\ before_zones[s].generation = after_zones[s].generation
        /\ before_zones[s].zones = SeqToSet(after_zones[s].zones)
        /\ Cardinality(before_zones[s].zones) = Len(after_zones[s].zones)
    /\ DOMAIN before_disks = DOMAIN after_disks
    /\ \A s \in DOMAIN before_disks :
        /\ before_disks[s].generation = Some(after_disks[s].generation)
        /\ before_disks[s].disks = AfterDisks(s)
    /\ DOMAIN before_datasets = DOMAIN after_datasets
    /\ \A s \in DOMAIN before_datasets :
        /\ before_datasets[s].generation = Some(after_datasets[s].generation)
        /\ before_datasets[s].datasets = after_datasets[s].datasets

\* C8 (idempotence).  The diff of a snapshot against a copy of itself has no
\* key in any added, removed, modified or errors bucket, empty sleds_added,
\* sleds_removed and sleds_modified, and every sled in sleds_unchanged.
C8_Idempotence ==
    (Returned /\ IdenticalSnapshots) =>
        /\ \A s \in Sleds : ~HasChangeKey(diff, s)
        /\ diff.sleds_added = {}
        /\ diff.sleds_removed = {}
        /\ diff.sleds_modified = {}
        /\ diff.sleds_unchanged = BeforeHosts \cup AfterHosts

\* A copy of a snapshot of two sleds, one with two zones and one with disks
\* and datasets.
C8_Witness ==
    /\ Returned
    /\ IdenticalSnapshots
    /\ Cardinality(diff.sleds_unchanged) = 2
    /\ \E s \in Sleds : Cardinality(BeforeZones(s)) = 2
    /\ \E s \in Sleds : BeforeDisks(s) # {} /\ DOMAIN BeforeDatasets(s) # {}

\* C9 (disk set laws).  For a sled of both disk maps, added is after less
\* before, removed is before less after and unchanged is their intersection,
\* by the full (vendor, model, serial) value; the three are pairwise disjoint
\* and cover the union of before and after.
C9_DiskSetLaws ==
    Returned =>
        \A s \in (DOMAIN before_disks) \cap (DOMAIN after_disks) :
            /\ DiskBucket(diff, "added", s) = AfterDisks(s) \ BeforeDisks(s)
            /\ DiskBucket(diff, "removed", s) = BeforeDisks(s) \ AfterDisks(s)
            /\ DiskBucket(diff, "unchanged", s)
                = BeforeDisks(s) \cap AfterDisks(s)
            /\ PairwiseDisjoint(DiskBuckets(diff, s))
            /\ UnionOf(DiskBuckets(diff, s)) = BeforeDisks(s) \cup AfterDisks(s)

\* A disk is replaced by one with the same serial and another vendor, next to
\* a disk that stays.
C9_Witness ==
    /\ Returned
    /\ \E s \in (DOMAIN before_disks) \cap (DOMAIN after_disks) :
        /\ \E d \in DiskBucket(diff, "removed", s) :
           \E e \in DiskBucket(diff, "added", s) :
                d.serial = e.serial /\ d.vendor # e.vendor
        /\ DiskBucket(diff, "unchanged", s) # {}

\* The ids of the same-id zone pairs of a sled that mismatch on kind,
\* underlay_ip or zone_type.
Offending(s) == {p[1].id : p \in {q \in ZonePairs(s) : ~SameStructure(q[1], q[2])}}

OffendingSleds == {s \in Sleds : Offending(s) # {}}

\* The zone maps without the offending pairs.
BeforeZonesCleared ==
    [s \in DOMAIN before_zones |->
        [before_zones[s] EXCEPT
            !.zones = {z \in @ : z.id \notin Offending(s)}]]

AfterZonesCleared ==
    [s \in DOMAIN after_zones |->
        [after_zones[s] EXCEPT
            !.zones = SelectSeq(@, LAMBDA z : z.id \notin Offending(s))]]

DiffCleared ==
    BlueprintDiff_new(before_meta, before_state, BeforeZonesCleared,
                      before_disks, before_datasets, after_meta, after_state,
                      AfterZonesCleared, after_disks, after_datasets)

\* C10.  The call never panics; every mismatching pair has an error in
\* zones.errors of its sled, and every other zone, disk, dataset and sled is
\* classified as in the diff of the snapshots without the mismatching pairs,
\* but that the sleds of these pairs are modified.
C10_NeverAborts ==
    /\ pc # "panicked"
    /\ Returned =>
        /\ \A s \in Sleds : \A id \in Offending(s) :
            ErrorsFor(diff, s, id) # {}
        /\ \A b \in {"added", "removed", "unchanged", "modified"} :
            diff.zones[b] = DiffCleared.zones[b]
        /\ diff.physical_disks = DiffCleared.physical_disks
        /\ diff.datasets = DiffCleared.datasets
        /\ diff.sleds_added = DiffCleared.sleds_added
        /\ diff.sleds_removed = DiffCleared.sleds_removed
        /\ diff.sleds_modified = DiffCleared.sleds_modified \cup OffendingSleds
        /\ diff.sleds_unchanged = DiffCleared.sleds_unchanged \ OffendingSleds

\* Zone 1 mismatches on underlay_ip on a sled whose zone 2 is unchanged, next
\* to a sled that is not modified.
C10_Witness ==
    /\ Returned
    /\ \E s \in Sleds :
        /\ Offending(s) = {1}
        /\ \E p \in ZonePairs(s) : p[1].underlay_ip # p[2].underlay_ip
        /\ IdsOf(ZoneBucket(diff, "unchanged", s)) = {2}
    /\ diff.sleds_unchanged \cup diff.sleds_added \cup diff.sleds_removed # {}

\* A Vec of zone records in ascending order of zone_sort_key.
ZoneVecSorted(q) ==
    \A i, j \in 1..Len(q) : i < j => ~ZoneKeyLess(q[j], q[i])

\* An error list in ascending order of the key of its before records or of
\* its after records.
ErrorVecSorted(errors) ==
    \/ ZoneVecSorted([i \in 1..Len(errors) |-> errors[i].zone_before])
    \/ ZoneVecSorted([i \in 1..Len(errors) |-> errors[i].zone_after])

\* C11, as claimed.  In the zone diff the records of every bucket of every
\* sled are in ascending order of the sort key (kind, id): the added, removed
\* and unchanged buckets, the modified bucket, the error list, and the added
\* bucket of a sled that is only in the after map.
C11_Claimed ==
    Returned =>
        \A s \in Sleds :
            /\ \A b \in {"added", "removed", "unchanged"} :
                s \in DOMAIN diff.zones[b]
                    => ZoneVecSorted(diff.zones[b][s].zones)
            /\ s \in DOMAIN diff.zones.modified
                => ZoneVecSorted(ModifiedZoneKeys(diff.zones.modified[s].zones))
            /\ s \in DOMAIN diff.zones.errors
                => ErrorVecSorted(diff.zones.errors[s].errors)

Displayed == pc = "displayed"

\* The texts of the section headings and of the headings of the metadata
\* tables of a rendering, in the order written.
HeadingsOf(text) ==
    LET hs == SelectSeq(text, LAMBDA it : it[1] \in {"heading", "kvlist"})
    IN  [i \in 1..Len(hs) |-> hs[i][2]]

\* The headings that a report calls for, in the fixed order.
ExpectedHeadings(r) ==
    (IF r.sleds_unchanged # {} THEN <<" UNCHANGED SLEDS:">> ELSE <<>>)
    \o (IF r.sleds_removed # {} THEN <<" REMOVED SLEDS:">> ELSE <<>>)
    \o (IF r.sleds_modified # {} THEN <<" MODIFIED SLEDS:">> ELSE <<>>)
    \o (IF r.sleds_added # {} THEN <<" ADDED SLEDS:">> ELSE <<>>)
    \o (IF DOMAIN r.zones.errors # {} THEN <<"ERRORS:">> ELSE <<>>)
    \o <<"COCKROACHDB_HEADING", "METADATA_HEADING">>

\* The text of the last section heading written before item i.
SectionOf(text, i) ==
    LET before == {j \in 1..(i - 1) : text[j][1] = "heading"}
    IN  IF before = {} THEN "none"
        ELSE text[CHOOSE j \in before : \A k \in before : k <= j][2]

\* The sleds whose sled line is under the section heading.
SledsUnder(text, heading) ==
    {text[i][2] : i \in {j \in 1..Len(text) :
        text[j][1] = "sled" /\ SectionOf(text, j) = heading}}

RowStateOrd == [Unchanged |-> 1, Removed |-> 2, Modified |-> 3, Added |-> 4]

\* The rows of a table come in the order Unchanged, Removed, Modified, Added.
RowsInStateOrder(rows) ==
    \A i, j \in 1..Len(rows) :
        i < j => RowStateOrd[rows[i].state] <= RowStateOrd[rows[j].state]

TablesOf(text) ==
    {text[i] : i \in {j \in 1..Len(text) : text[j][1] = "table"}}

\* C12 (rendering order).  The rendering has its section headings in the
\* order Unchanged sleds, Removed sleds, Modified sleds, Added sleds, Errors,
\* then the two metadata tables; the heading of an empty sled set or of an
\* empty error map is left out and no heading comes twice; the sled lines
\* under a heading are those of the sleds of its set, each once; and the rows
\* of every sled table come in the order Unchanged, Removed, Modified, Added.
C12_RenderingOrder ==
    Displayed =>
        /\ HeadingsOf(out) = ExpectedHeadings(diff)
        /\ SledsUnder(out, " UNCHANGED SLEDS:") = diff.sleds_unchanged
        /\ SledsUnder(out, " REMOVED SLEDS:") = diff.sleds_removed
        /\ SledsUnder(out, " MODIFIED SLEDS:") = diff.sleds_modified
        /\ SledsUnder(out, " ADDED SLEDS:") = diff.sleds_added
        /\ Cardinality({i \in 1..Len(out) : out[i][1] = "sled"})
            = Cardinality(diff.sleds_unchanged \cup diff.sleds_removed
                          \cup diff.sleds_modified \cup diff.sleds_added)
        /\ \A t \in TablesOf(out) : RowsInStateOrder(t[4])

\* A rendering with an added and a modified sled and the Errors section,
\* where a table has unchanged, removed and added rows.
C12_Witness ==
    /\ Displayed
    /\ diff.sleds_added # {}
    /\ diff.sleds_modified # {}
    /\ DOMAIN diff.zones.errors # {}
    /\ \E t \in TablesOf(out) :
        {t[4][i].state : i \in 1..Len(t[4])} = {"Unchanged", "Removed", "Added"}

Reverse(q) == [i \in 1..Len(q) |-> q[Len(q) + 1 - i]]

\* The after zones with the records of every sled supplied in the opposite
\* order.
AfterZonesReversed ==
    [s \in DOMAIN after_zones |->
        [after_zones[s] EXCEPT !.zones = Reverse(@)]]

\* The report of a second run, on the same snapshots with the zone records
\* supplied in the opposite order.
DiffOfReversed ==
    BlueprintDiff_new(before_meta, before_state, before_zones, before_disks,
                      before_datasets, after_meta, after_state,
                      AfterZonesReversed, after_disks, after_datasets)

\* C13, as claimed.  A second run on the same inputs returns the same report
\* (the same bucket contents in the same record order and the same four sled
\* sets) and renders the same text, also when the records of the inputs are
\* supplied in another order.
C13_Claimed ==
    Returned =>
        /\ DiffOfReversed = diff
        /\ BlueprintDiffDisplay_fmt(DiffOfReversed)
            = BlueprintDiffDisplay_fmt(diff)

\* The report that the call of caller t returns when it runs alone.
ReportAlone(t) ==
    LET g == calls[t].given
    IN  BlueprintDiff_new(g.before_meta, g.before_state, g.before_zones,
            g.before_disks, g.before_datasets, g.after_meta, g.after_state,
            g.after_zones, g.after_disks, g.after_datasets)

\* C14 (concurrent diffs are independent).  With the steps of several calls
\* interleaved in any order, every call that has finished returns the report
\* it returns when run alone on its snapshots, and a step of one call leaves
\* the arguments, the locals and the result of every other call as they were.
C14_Independent ==
    /\ [](\A t \in DOMAIN calls :
            calls[t].at = "done" => calls[t].result = Some(ReportAlone(t)))
    /\ [][\E t \in DOMAIN calls :
            \A u \in DOMAIN calls : u # t => calls'[u] = calls[u]]_vars

\* Both calls have finished, on different snapshots, and the decommission
\* patch changed the after state of one of them.
C14_Witness ==
    /\ \A t \in DOMAIN calls : calls[t].at = "done"
    /\ \E t, u \in DOMAIN calls :
        /\ calls[t].given # calls[u].given
        /\ calls[t].after_state # calls[t].given.after_state

\* The ModifiedDataset entries of sled s in report r.
DatasetsModified(r, s) ==
    IF s \in DOMAIN r.datasets.modified
    THEN SeqToSet(r.datasets.modified[s].datasets) ELSE {}

\* C15 (dataset classification).  For a sled of both dataset maps and every
\* dataset id: the id is in unchanged iff it is on both sides with equal
\* records; it is in modified, with its before and its after record, iff it
\* is on both sides with unequal records; it is in removed iff it is only in
\* before, and in added iff it is only in after.
C15_DatasetClassification ==
    Returned =>
        \A s \in (DOMAIN before_datasets) \cap (DOMAIN after_datasets) :
        \A id \in DatasetIds :
            LET b == BeforeDatasets(s)
                a == AfterDatasets(s)
                both == id \in DOMAIN b /\ id \in DOMAIN a
            IN  /\ id \in DatasetBucketIds(diff, "unchanged", s)
                    <=> (both /\ b[id] = a[id])
                /\ id \in DatasetBucketIds(diff, "unchanged", s)
                    => diff.datasets.unchanged[s].datasets[id] = a[id]
                /\ id \in DatasetModifiedIds(diff, s)
                    <=> (both /\ b[id] # a[id])
                /\ (both /\ b[id] # a[id])
                    => [before |-> b[id], after |-> a[id]]
                        \in DatasetsModified(diff, s)
                /\ id \in DatasetBucketIds(diff, "removed", s)
                    <=> (id \in DOMAIN b /\ id \notin DOMAIN a)
                /\ id \in DatasetBucketIds(diff, "added", s)
                    <=> (id \in DOMAIN a /\ id \notin DOMAIN b)

\* A sled of both dataset maps with a dataset whose quota changed next to an
\* added dataset, and a sled with an unchanged next to a removed dataset.
C15_Witness ==
    /\ Returned
    /\ \E s \in (DOMAIN before_datasets) \cap (DOMAIN after_datasets) :
        /\ DatasetModifiedIds(diff, s) # {}
        /\ DatasetBucketIds(diff, "added", s) # {}
    /\ \E s \in (DOMAIN before_datasets) \cap (DOMAIN after_datasets) :
        /\ DatasetBucketIds(diff, "unchanged", s) # {}
        /\ DatasetBucketIds(diff, "removed", s) # {}

\* The generations that the bucket entries of sled s carry, per category, as
\* bp_generation gives them.
ZoneGenerations(r, s) ==
    {BpGenerationDiff(r.zones[b][s].generation_before,
                      r.zones[b][s].generation_after) :
        b \in {b \in {"added", "removed", "unchanged"} :
                    s \in DOMAIN r.zones[b]}}
    \cup {BpGenerationDiff(Some(r.zones[b][s].generation_before),
                           Some(r.zones[b][s].generation_after)) :
            b \in {b \in {"modified", "errors"} : s \in DOMAIN r.zones[b]}}

DiskGenerations(r, s) ==
    {BpGenerationDiff(r.physical_disks[b][s].before_generation,
                      r.physical_disks[b][s].after_generation) :
        b \in {b \in {"added", "removed", "unchanged"} :
                    s \in DOMAIN r.physical_disks[b]}}

DatasetGenerations(r, s) ==
    {BpGenerationDiff(r.datasets[b][s].before_generation,
                      r.datasets[b][s].after_generation) :
        b \in {b \in {"added", "removed", "unchanged"} :
                    s \in DOMAIN r.datasets[b]}}
    \cup {BpGenerationDiff(r.datasets.modified[s].generation_before,
                           r.datasets.modified[s].generation_after) :
            x \in {x \in {1} : s \in DOMAIN r.datasets.modified}}

\* The generation of the tables that to_bp_sled_subtable gives for sled s.
TableGenerations(tables) == {tables[i][3] : i \in 1..Len(tables)}

\* C16 (generation consistency).  Within a category, the bucket entries that
\* exist for a sled all carry the same generation before and the same
\* generation after, and the generation of the sled's table of the category
\* is that generation.
C16_GenerationConsistency ==
    Returned =>
        \A s \in Sleds :
            /\ Cardinality(ZoneGenerations(diff, s)) <= 1
            /\ Cardinality(DiskGenerations(diff, s)) <= 1
            /\ Cardinality(DatasetGenerations(diff, s)) <= 1
            /\ TableGenerations(BpDiffZones_to_bp_sled_subtable(diff.zones, s))
                \subseteq ZoneGenerations(diff, s)
            /\ TableGenerations(
                    BpDiffPhysicalDisks_to_bp_sled_subtable(diff.physical_disks, s))
                \subseteq DiskGenerations(diff, s)
            /\ TableGenerations(
                    BpDiffDatasets_to_bp_sled_subtable(diff.datasets, s))
                \subseteq DatasetGenerations(diff, s)

\* A sled with a modified zone and a zone error, and a sled with unchanged,
\* removed and added disks whose generation went up.
C16_Witness ==
    /\ Returned
    /\ \E s \in Sleds :
        s \in (DOMAIN diff.zones.modified) \cap (DOMAIN diff.zones.errors)
    /\ \E s \in Sleds :
        /\ s \in (DOMAIN diff.physical_disks.unchanged)
                \cap (DOMAIN diff.physical_disks.removed)
                \cap (DOMAIN diff.physical_disks.added)
        /\ \E g \in DiskGenerations(diff, s) : g.before # g.after

\* A report has been returned, and may have been displayed.
HasReport == pc \in {"returned", "displayed"}

\* The sled of the last "sled" line of the Errors section before item i.
ErrorSledOf(text, i) ==
    LET before == {j \in 1..(i - 1) : text[j][1] = "error sled"}
    IN  IF before = {} THEN 0
        ELSE text[CHOOSE j \in before : \A k \in before : k <= j][2]

\* The zone ids that the Errors section lists for sled s.
ErrorIdsListed(text, s) ==
    {text[i][2] : i \in {j \in 1..Len(text) :
        text[j][1] = "zone id" /\ ErrorSledOf(text, j) = s}}

\* C17 (every zone-modification error is surfaced).  For a sled of both zone
\* maps and a zone id of both sides whose records differ in kind, underlay_ip
\* or zone_type, zones.errors of the sled holds exactly one error for the id,
\* with the before record, the after record and a non-empty reason, whatever
\* the state of the sled and whatever else changed on it; and the Errors
\* section of the rendering lists the id under the sled.
C17_ErrorsSurfaced ==
    HasReport =>
        \A s \in Sleds : \A p \in ZonePairs(s) :
            ~SameStructure(p[1], p[2])
            => /\ Cardinality(ErrorsFor(diff, s, p[1].id)) = 1
               /\ \A i \in ErrorsFor(diff, s, p[1].id) :
                    LET e == diff.zones.errors[s].errors[i]
                    IN  /\ e.zone_before = p[1]
                        /\ e.zone_after = p[2]
                        /\ e.reason # <<>>
               /\ Displayed => p[1].id \in ErrorIdsListed(out, s)

\* A rendering of a report for a sled without a state entry on which both
\* zones mismatch, that lists both ids.
C17_Witness ==
    /\ Displayed
    /\ \E s \in Sleds :
        /\ Cardinality(Offending(s)) = 2
        /\ s \notin (DOMAIN before_state) \cup (DOMAIN after_state)
        /\ ErrorIdsListed(out, s) = {1, 2}

\* The snapshots of the worked example, with sled h as H1: h is the only
\* sled; before it holds zone 1 (kind A, 10.0.0.1, InService) and disk D1,
\* after it holds zone 1 Expunged and disks D1 and D2; its state and its
\* datasets, if it has any, are the same on both sides.
ScenarioOn(h) ==
    /\ BeforeHosts \cup AfterHosts = {h}
    /\ DOMAIN before_zones = {h}
    /\ DOMAIN after_zones = {h}
    /\ before_zones[h].zones = {ZoneConfig(1, "A", "InService", "10.0.0.1", "t1")}
    /\ after_zones[h].zones = <<ZoneConfig(1, "A", "Expunged", "10.0.0.1", "t1")>>
    /\ DOMAIN before_disks = {h}
    /\ DOMAIN after_disks = {h}
    /\ BeforeDisks(h) = {D1}
    /\ AfterDisks(h) = {D1, D2}
    /\ before_state = after_state
    /\ DOMAIN before_datasets = DOMAIN after_datasets
    /\ BeforeDatasets(h) = AfterDatasets(h)

\* C18 (the worked example).  On the snapshots of the worked example the
\* report has zones.modified[H1] = [zone 1 with prior disposition InService
\* and disposition Expunged], disks unchanged[H1] = {D1} and added[H1] = {D2},
\* sleds_modified = {H1}, and empty sleds_added, sleds_removed,
\* sleds_unchanged and zones.errors.
C18_Scenario ==
    \A h \in Sleds :
        (Returned /\ ScenarioOn(h)) =>
            /\ DOMAIN diff.zones.modified = {h}
            /\ diff.zones.modified[h].zones
                = <<[prior_disposition |-> "InService",
                     zone |-> ZoneConfig(1, "A", "Expunged", "10.0.0.1", "t1")]>>
            /\ DiskBucket(diff, "unchanged", h) = {D1}
            /\ DiskBucket(diff, "added", h) = {D2}
            /\ diff.sleds_modified = {h}
            /\ diff.sleds_added = {}
            /\ diff.sleds_removed = {}
            /\ diff.sleds_unchanged = {}
            /\ DOMAIN diff.zones.errors = {}

\* The report of the worked example, for a sled without state or datasets.
C18_Witness ==
    /\ Returned
    /\ \E h \in Sleds :
        /\ ScenarioOn(h)
        /\ before_state = EmptyMap
        /\ before_datasets = EmptyMap

\* The buckets of report part d, other than bucket b, that have sled s as a
\* key.
OtherBucketsWith(d, b, s) == {x \in (DOMAIN d) \ {b} : s \in DOMAIN d[x]}

\* C19 (one-sided sleds).  In each category, a sled that is a key of the
\* before map only has all its before records in the removed bucket, with
\* generation after None, and no entry in another bucket; a sled that is a key
\* of the after map only and has records has them all in the added bucket,
\* with generation before None, and no entry in another bucket; a sled of the
\* after map only without records has no bucket entry.
C19_OneSidedHosts ==
    Returned =>
        /\ \A s \in (DOMAIN before_zones) \ (DOMAIN after_zones) :
            /\ ZoneBucket(diff, "removed", s) = BeforeZones(s)
            /\ BeforeZones(s) # {} => s \in DOMAIN diff.zones.removed
            /\ s \in DOMAIN diff.zones.removed
                => diff.zones.removed[s].generation_after = NONE
            /\ OtherBucketsWith(diff.zones, "removed", s) = {}
        /\ \A s \in (DOMAIN after_zones) \ (DOMAIN before_zones) :
            IF AfterZones(s) # {}
            THEN /\ s \in DOMAIN diff.zones.added
                 /\ ZoneBucket(diff, "added", s) = AfterZones(s)
                 /\ Len(diff.zones.added[s].zones) = Len(after_zones[s].zones)
                 /\ diff.zones.added[s].generation_before = NONE
                 /\ OtherBucketsWith(diff.zones, "added", s) = {}
            ELSE OtherBucketsWith(diff.zones, "none", s) = {}
        /\ \A s \in (DOMAIN before_disks) \ (DOMAIN after_disks) :
            /\ DiskBucket(diff, "removed", s) = BeforeDisks(s)
            /\ BeforeDisks(s) # {} => s \in DOMAIN diff.physical_disks.removed
            /\ s \in DOMAIN diff.physical_disks.removed
                => diff.physical_disks.removed[s].after_generation = NONE
            /\ OtherBucketsWith(diff.physical_disks, "removed", s) = {}
        /\ \A s \in (DOMAIN after_disks) \ (DOMAIN before_disks) :
            IF AfterDisks(s) # {}
            THEN /\ s \in DOMAIN diff.physical_disks.added
                 /\ DiskBucket(diff, "added", s) = AfterDisks(s)
                 /\ diff.physical_disks.added[s].before_generation = NONE
                 /\ OtherBucketsWith(diff.physical_disks, "added", s) = {}
            ELSE OtherBucketsWith(diff.physical_disks, "none", s) = {}
        /\ \A s \in (DOMAIN before_datasets) \ (DOMAIN after_datasets) :
            /\ DOMAIN BeforeDatasets(s) # {}
                => s \in DOMAIN diff.datasets.removed
            /\ s \in DOMAIN diff.datasets.removed
                => /\ diff.datasets.removed[s].datasets = BeforeDatasets(s)
                   /\ diff.datasets.removed[s].after_generation = NONE
            /\ OtherBucketsWith(diff.datasets, "removed", s) = {}
        /\ \A s \in (DOMAIN after_datasets) \ (DOMAIN before_datasets) :
            IF DOMAIN AfterDatasets(s) # {}
            THEN /\ s \in DOMAIN diff.datasets.added
                 /\ diff.datasets.added[s].datasets = AfterDatasets(s)
                 /\ diff.datasets.added[s].before_generation = NONE
                 /\ OtherBucketsWith(diff.datasets, "added", s) = {}
            ELSE OtherBucketsWith(diff.datasets, "none", s) = {}

\* A sled that is only in the after zone map, with an empty zone list, next
\* to a sled that is only in the before maps and has a zone, a disk and a
\* dataset.
C19_Witness ==
    /\ Returned
    /\ \E s \in (DOMAIN after_zones) \ (DOMAIN before_zones) :
        AfterZones(s) = {}
    /\ \E s \in (DOMAIN before_zones) \ (DOMAIN after_zones) :
        /\ s \notin (DOMAIN after_disks) \cup (DOMAIN after_datasets)
        /\ BeforeZones(s) # {}
        /\ BeforeDisks(s) # {}
        /\ DOMAIN BeforeDatasets(s) # {}

\* ModifiedZone::new has returned.
Validated == validation # NONE /\ validation[1].result # NONE

\* The places of the lines of a reason that start with the given text.
LinesWith(reason, start) == {n \in 1..Len(reason) : reason[n][1] = start}

\* C20 (reason concatenation).  ModifiedZone::new returns an error if and
\* only if kind, underlay IP or zone type mismatches; the error holds both
\* records, and its reason has exactly one line for each mismatching field,
\* with the values of the field, none for a matching field, and the lines
\* come in the order kind, underlay IP, zone type, so that a pair mismatching
\* on two or three fields has all its lines in the one reason.
C20_ReasonConcatenation ==
    Validated =>
        LET b == validation[1].before
            a == validation[1].after
            r == validation[1].result[1]
            mismatches == {f \in {"kind", "underlay_ip", "zone_type"} :
                            b[f] # a[f]}
        IN  /\ r.ok <=> mismatches = {}
            /\ ~r.ok =>
                LET reason == r.value.reason
                    kind == LinesWith(reason, "mismatched zone kind: before: ")
                    ip == LinesWith(reason, "mismatched underlay IP: before: ")
                    zt == LinesWith(reason, "mismatched zone type: after: ")
                IN  /\ r.value.zone_before = b
                    /\ r.value.zone_after = a
                    /\ Len(reason) = Cardinality(mismatches)
                    /\ Cardinality(kind)
                        = IF "kind" \in mismatches THEN 1 ELSE 0
                    /\ Cardinality(ip)
                        = IF "underlay_ip" \in mismatches THEN 1 ELSE 0
                    /\ Cardinality(zt)
                        = IF "zone_type" \in mismatches THEN 1 ELSE 0
                    /\ \A n \in kind : reason[n] =
                        <<"mismatched zone kind: before: ", b.kind,
                          ", after: ", a.kind, "\n">>
                    /\ \A n \in ip : reason[n] =
                        <<"mismatched underlay IP: before: ", b.underlay_ip,
                          ", after: ", a.underlay_ip, "\n">>
                    /\ \A n \in zt : reason[n] =
                        <<"mismatched zone type: after: ", a.zone_type, "\n">>
                    /\ \A n \in kind : \A m \in ip \cup zt : n < m
                    /\ \A n \in ip : \A m \in zt : n < m

\* A pair that mismatches on kind, underlay IP and zone type.
C20_Witness ==
    /\ Validated
    /\ ~validation[1].result[1].ok
    /\ Len(validation[1].result[1].value.reason) = 3

\* C21 (a modified zone is a disposition change).  Every entry of
\* zones.modified of a sled comes from a same-id pair of the sled's before
\* and after records: it carries the after record, its prior_disposition is
\* the before record's disposition and differs from the after record's, and
\* the two records agree on id, kind, underlay_ip and zone_type.  A same-id
\* pair that differs in kind, underlay_ip or zone_type has no entry in
\* zones.modified.
C21_ModifiedIsDispositionChange ==
    HasReport =>
        \A s \in Sleds :
            /\ \A m \in ZoneBucket(diff, "modified", s) :
                /\ m.prior_disposition # m.zone.disposition
                /\ \E p \in ZonePairs(s) :
                    /\ p[2] = m.zone
                    /\ p[1].disposition = m.prior_disposition
                    /\ p[1].id = p[2].id
                    /\ SameStructure(p[1], p[2])
            /\ \A p \in ZonePairs(s) :
                ~SameStructure(p[1], p[2]) =>
                    p[1].id \notin
                        {m.zone.id : m \in ZoneBucket(diff, "modified", s)}

\* A sled with a modified zone next to an offending pair, and a sled with a
\* modified zone next to an unchanged one.
C21_Witness ==
    /\ HasReport
    /\ \E s \in Sleds :
        /\ ZoneBucket(diff, "modified", s) # {}
        /\ \E p \in ZonePairs(s) : ~SameStructure(p[1], p[2])
    /\ \E s \in Sleds :
        /\ ZoneBucket(diff, "modified", s) # {}
        /\ ZoneBucket(diff, "unchanged", s) # {}

\* The sleds that the decommission patch gives a state: before state
\* Decommissioned, no after_state argument entry, and a key of the after
\* zones or the after disks argument.
PatchedSleds ==
    {s \in Sleds :
        /\ MapGet(before_state, s) = Some("Decommissioned")
        /\ s \notin DOMAIN after_state
        /\ s \in (DOMAIN after_zones) \cup (DOMAIN after_disks)}

\* C22 (frame of the decommission patch).  The report's before_state is the
\* before_state argument.  The report's after_state has the keys of the
\* after_state argument and the patched sleds, keeps the argument's state for
\* each of the argument's keys and maps each patched sled to Decommissioned;
\* a decommissioned sled whose only after entry is a datasets entry has no
\* after state in the report.
C22_PatchFrame ==
    HasReport =>
        /\ diff.before_state = before_state
        /\ DOMAIN diff.after_state = (DOMAIN after_state) \cup PatchedSleds
        /\ \A s \in DOMAIN after_state : diff.after_state[s] = after_state[s]
        /\ \A s \in PatchedSleds : diff.after_state[s] = "Decommissioned"
        /\ \A s \in Sleds :
            (/\ MapGet(before_state, s) = Some("Decommissioned")
             /\ s \notin DOMAIN after_state
             /\ s \notin (DOMAIN after_zones) \cup (DOMAIN after_disks))
            => s \notin DOMAIN diff.after_state

\* A decommissioned sled without after state whose only after entry is its
\* datasets entry, in a fleet whose other sled has an after_state argument
\* entry.
C22_Witness ==
    /\ HasReport
    /\ DOMAIN after_state # {}
    /\ \E s \in Sleds :
        /\ MapGet(before_state, s) = Some("Decommissioned")
        /\ s \notin DOMAIN after_state
        /\ s \in DOMAIN after_datasets
        /\ s \notin (DOMAIN after_zones) \cup (DOMAIN after_disks)

\* The zones, disks and datasets entries of sled s are the same before and
\* after: present on both sides with the same records, or absent on both.
SameEntries(s) ==
    /\ s \in DOMAIN before_zones <=> s \in DOMAIN after_zones
    /\ s \in DOMAIN before_zones =>
        /\ before_zones[s].zones = SeqToSet(after_zones[s].zones)
        /\ Cardinality(before_zones[s].zones) = Len(after_zones[s].zones)
    /\ s \in DOMAIN before_disks <=> s \in DOMAIN after_disks
    /\ BeforeDisks(s) = AfterDisks(s)
    /\ s \in DOMAIN before_datasets <=> s \in DOMAIN after_datasets
    /\ BeforeDatasets(s) = AfterDatasets(s)

\* A decommissioned sled without after_state argument entry whose entries
\* are the same before and after, with a zones or disks entry.
DecommissionedLeftover(s) ==
    /\ MapGet(before_state, s) = Some("Decommissioned")
    /\ s \notin DOMAIN after_state
    /\ SameEntries(s)
    /\ s \in (DOMAIN after_zones) \cup (DOMAIN after_disks)

\* C23 (decommissioned sled with leftovers).  A sled with before state
\* Decommissioned, no after_state argument entry, the same zones, disks and
\* datasets entries before and after and a zones or disks entry after is in
\* sleds_unchanged and not in sleds_modified.
C23_LeftoverUnchanged ==
    HasReport =>
        \A s \in Sleds :
            DecommissionedLeftover(s) =>
                /\ s \in diff.sleds_unchanged
                /\ s \notin diff.sleds_modified

\* Such a sled with a disks entry and no zones entry, reported unchanged.
C23_Witness ==
    /\ HasReport
    /\ \E s \in Sleds :
        /\ DecommissionedLeftover(s)
        /\ s \notin DOMAIN after_zones
        /\ s \in diff.sleds_unchanged

\* The sleds whose before zones the zone diff copies into `removed` in its
\* branch for a sled without after zones entry.
AbsentAfter == (DOMAIN before_zones) \ (DOMAIN after_zones)

\* C24 (the assertion of the zone diff).  `assert!(removed.is_empty())` in
\* the branch for a sled without after zones entry fails for no arguments:
\* no call of BlueprintDiff::new panics.
C24_AssertionHolds ==
    /\ ~BpDiffZones_panics(before_zones, after_zones)
    /\ pc \in {"call", "returned", "displayed"}

\* A returned call in which the branch ran for a sled with zones, after an
\* earlier sled of the loop had zones removed.
C24_Witness ==
    /\ Returned
    /\ \E s1, s2 \in Sleds :
        /\ s1 < s2
        /\ s1 \in DOMAIN diff.zones.removed
        /\ s2 \in AbsentAfter
        /\ s2 \in DOMAIN diff.zones.removed

\* The first pieces of the texts of the error branches of
\* sled_state_unchanged, sled_state_added and sled_state_removed.
SledStateErrors ==
    {"blueprint diff error: unchanged sled changed state from ",
     "blueprint diff error: added sled has old state ",
     "blueprint diff error: removed sled has new state "}

\* The state texts of the sled lines of the rendering.
SledTexts ==
    {out[i][3] : i \in {j \in 1..Len(out) : out[j][1] = "sled"}}

\* C25 (states of the sled sets).  In a report, a sled of sleds_added has no
\* before_state entry, a sled of sleds_removed has no after_state entry and
\* a sled of sleds_unchanged has the same before_state and after_state
\* lookups; no sled line of the rendering has the text of a "blueprint diff
\* error" branch.
C25_SledSetStates ==
    /\ HasReport =>
        /\ \A s \in diff.sleds_added : s \notin DOMAIN diff.before_state
        /\ \A s \in diff.sleds_removed : s \notin DOMAIN diff.after_state
        /\ \A s \in diff.sleds_unchanged :
            MapGet(diff.before_state, s) = MapGet(diff.after_state, s)
    /\ Displayed => \A text \in SledTexts : text[1] \notin SledStateErrors

\* A rendering with an added sled that has an after state next to a removed
\* sled that had a before state.
C25_Witness ==
    /\ Displayed
    /\ \E s \in diff.sleds_added : s \in DOMAIN diff.after_state
    /\ \E s \in diff.sleds_removed : s \in DOMAIN diff.before_state
    /\ Cardinality(SledTexts) >= 2

\* The same-id pairs of sled s that differ in disposition only.
DispositionOnly(s) ==
    {p \in ZonePairs(s) :
        SameStructure(p[1], p[2]) /\ p[1].disposition # p[2].disposition}

\* C26 (errors next to modifications).  On a sled with a same-id pair that
\* fails validation and another that differs in disposition only, the first
\* has an entry in zones.errors of the sled and none in zones.modified, the
\* second has an entry in zones.modified and none in zones.errors, and the
\* two buckets' entries of the sled carry the generations of the sled's
\* before and after zones entries.
C26_ErrorsNextToModified ==
    HasReport =>
        \A s \in Sleds :
            (Offending(s) # {} /\ DispositionOnly(s) # {}) =>
                /\ s \in DOMAIN diff.zones.errors
                /\ s \in DOMAIN diff.zones.modified
                /\ \A id \in Offending(s) :
                    /\ ErrorsFor(diff, s, id) # {}
                    /\ \A m \in ZoneBucket(diff, "modified", s) :
                        m.zone.id # id
                /\ \A p \in DispositionOnly(s) :
                    /\ [prior_disposition |-> p[1].disposition, zone |-> p[2]]
                        \in ZoneBucket(diff, "modified", s)
                    /\ ErrorsFor(diff, s, p[1].id) = {}
                /\ diff.zones.errors[s].generation_before
                    = before_zones[s].generation
                /\ diff.zones.modified[s].generation_before
                    = before_zones[s].generation
                /\ diff.zones.errors[s].generation_after
                    = after_zones[s].generation
                /\ diff.zones.modified[s].generation_after
                    = after_zones[s].generation

\* A sled whose first zone fails validation and whose second zone changed
\* disposition, with before and after generations that differ.
C26_Witness ==
    /\ HasReport
    /\ \E s \in Sleds :
        /\ 1 \in Offending(s)
        /\ 2 \in IdsOf({p[1] : p \in DispositionOnly(s)})
        /\ before_zones[s].generation # after_zones[s].generation
        /\ s \in DOMAIN diff.zones.errors
        /\ s \in DOMAIN diff.zones.modified

\* The rows in state Modified of the datasets table of sled s, in order.
ModifiedDatasetRows(r, s) ==
    LET tables == BpDiffDatasets_to_bp_sled_subtable(r.datasets, s)
    IN  IF tables = <<>> THEN <<>>
        ELSE SelectSeq(tables[1][4], LAMBDA row : row.state = "Modified")

\* C27 (rows of modified datasets).  The datasets table of a sled has one
\* row in state Modified per entry of datasets.modified of the sled, in
\* order; the row has one column per display string of the record; column c
\* is the diff column of the before and after strings at c when they differ
\* and the value column of the before string otherwise; and at least one
\* column of the row is a diff column.  The table is in the rendering of the
\* report.
C27_ModifiedDatasetRows ==
    HasReport =>
        \A s \in Sleds :
            LET rows == ModifiedDatasetRows(diff, s)
                modified == IF s \in DOMAIN diff.datasets.modified
                            THEN diff.datasets.modified[s].datasets ELSE <<>>
            IN  /\ Len(rows) = Len(modified)
                /\ \A i \in 1..Len(rows) :
                    LET before_strings == as_strings(modified[i].before)
                        after_strings == as_strings(modified[i].after)
                        columns == rows[i].columns
                    IN  /\ Len(columns) = Len(before_strings)
                        /\ Len(columns) = Len(after_strings)
                        /\ \A c \in 1..Len(columns) :
                            /\ columns[c][1] = "diff"
                                <=> before_strings[c] # after_strings[c]
                            /\ columns[c][1] = "diff" =>
                                columns[c] = <<"diff", before_strings[c],
                                               after_strings[c]>>
                            /\ columns[c][1] # "diff" =>
                                columns[c] = <<"value", before_strings[c]>>
                        /\ \E c \in 1..Len(columns) : columns[c][1] = "diff"
                /\ (Displayed /\ rows # <<>>) =>
                    \E t \in TablesOf(out) :
                        <<t>> = BpDiffDatasets_to_bp_sled_subtable(diff.datasets, s)

\* A rendering with the row of a dataset whose quota changed: the quota
\* column is a diff column next to value columns.
C27_Witness ==
    /\ Displayed
    /\ \E s \in Sleds :
        LET rows == ModifiedDatasetRows(diff, s)
        IN  /\ rows # <<>>
            /\ \E c, d \in 1..Len(rows[1].columns) :
                /\ rows[1].columns[c][1] = "diff"
                /\ rows[1].columns[d][1] = "value"

\* The members of BlueprintMetadata that the metadata tables show, in the
\* order of their rows.
MetaMembers ==
    <<"cockroachdb_fingerprint", "cockroachdb_setting_preserve_downgrade",
      "internal_dns_version", "external_dns_version">>

\* The rows of the metadata tables of a rendering, in order.
MetaRows(text) ==
    LET lists == SelectSeq(text, LAMBDA it : it[1] = "kvlist")
    IN  IF Len(lists) = 2 THEN lists[1][3] \o lists[2][3] ELSE <<>>

\* How a metadata value reads in a row: the empty fingerprint and the absent
\* preserve-downgrade setting read as a marker in parentheses.
MetaShown(member, value) ==
    IF member = "cockroachdb_fingerprint"
    THEN IF value = "" THEN "(none)" ELSE value
    ELSE IF member = "cockroachdb_setting_preserve_downgrade"
    THEN IF value = NONE THEN "(invalid value)" ELSE value[1]
    ELSE value

\* C28 (metadata rows).  The rendering has one row per metadata member.  With
\* a collection before, every row is in state Added and goes from the
\* not-present marker to the after value.  With a blueprint before, a row is
\* in state Unchanged with the after value if the before and after values are
\* equal, and in state Modified with the before and the after value if not.
\* An empty fingerprint and an absent preserve-downgrade setting are shown
\* as a marker.
C28_MetadataRows ==
    Displayed =>
        LET rows == MetaRows(out)
        IN  /\ Len(rows) = Len(MetaMembers)
            /\ \A i \in 1..Len(rows) :
                LET member == MetaMembers[i]
                    after == MetaShown(member, after_meta[member])
                IN  IF before_meta.collection
                    THEN /\ rows[i].state = "Added"
                         /\ rows[i].value =
                            <<"modified", "(not present in collection)", after>>
                    ELSE LET before == before_meta.meta[1][member]
                         IN  /\ rows[i].state \in {"Unchanged", "Modified"}
                             /\ rows[i].state = "Unchanged"
                                <=> before = after_meta[member]
                             /\ rows[i].state = "Unchanged" =>
                                rows[i].value = <<"unchanged", after>>
                             /\ rows[i].state = "Modified" =>
                                rows[i].value =
                                    <<"modified", MetaShown(member, before),
                                      after>>

\* A rendering for a blueprint before with an unchanged row and a modified
\* row whose after value is the marker of the empty fingerprint.
C28_Witness ==
    /\ Displayed
    /\ ~before_meta.collection
    /\ Len(MetaRows(out)) = 4
    /\ \E i \in 1..Len(MetaRows(out)) : MetaRows(out)[i].state = "Unchanged"
    /\ MetaRows(out)[1].state = "Modified"
    /\ MetaRows(out)[1].value = <<"modified", "fp", "(none)">>

\* The sleds that are a key of a bucket with nothing stored for them.
EmptyBucketSleds(r) ==
    UNION {{s \in DOMAIN r.zones[b] : r.zones[b][s].zones = <<>>} :
                b \in {"added", "removed", "unchanged", "modified"}}
    \cup {s \in DOMAIN r.zones.errors : r.zones.errors[s].errors = <<>>}
    \cup UNION {{s \in DOMAIN r.physical_disks[b] :
                    r.physical_disks[b][s].disks = {}} :
                b \in {"added", "removed", "unchanged"}}
    \cup UNION {{s \in DOMAIN r.datasets[b] :
                    DOMAIN r.datasets[b][s].datasets = {}} :
                b \in {"added", "removed", "unchanged"}}
    \cup {s \in DOMAIN r.datasets.modified :
            r.datasets.modified[s].datasets = <<>>}

\* C29 (no empty bucket entries), as claimed.  In a report, a sled is a key
\* of a bucket of the zones, disks or datasets diff only if the collection
\* stored for it is not empty.
C29_Claimed == HasReport => EmptyBucketSleds(diff) = {}

\* The buckets other than the removed buckets of the disks and datasets
\* diffs have no empty entry, and neither have these for a sled of the after
\* map.
C29_EmptyOnlyRemovedAbsent ==
    HasReport =>
        \A s \in EmptyBucketSleds(diff) :
            \/ /\ s \in (DOMAIN before_disks) \ (DOMAIN after_disks)
               /\ BeforeDisks(s) = {}
            \/ /\ s \in (DOMAIN before_datasets) \ (DOMAIN after_datasets)
               /\ DOMAIN BeforeDatasets(s) = {}

\* C30 (sleds with modified zones or zone errors).  A sled that is a key of
\* zones.modified or of zones.errors is a key of the before and of the after
\* zones map, is in sleds_modified and is in none of sleds_added,
\* sleds_removed and sleds_unchanged.
C30_ZoneChangesModifySled ==
    HasReport =>
        \A s \in (DOMAIN diff.zones.modified) \cup (DOMAIN diff.zones.errors) :
            /\ s \in (DOMAIN before_zones) \cap (DOMAIN after_zones)
            /\ s \in diff.sleds_modified
            /\ s \notin diff.sleds_added \cup diff.sleds_removed
                        \cup diff.sleds_unchanged

\* A sled whose only change is a zone error, with equal state lookups, in
\* sleds_modified.
C30_Witness ==
    /\ HasReport
    /\ \E s \in DOMAIN diff.zones.errors :
        /\ ~HasChangeKey([diff EXCEPT !.zones.errors = EmptyMap], s)
        /\ ~StateChanged(diff, s)
        /\ s \in diff.sleds_modified

====
